---- MODULE Spec2Model ----
(***************************************************************************)
(* A model of simple-redis: the RESP frame codec (the incremental decoder  *)
(* of src/resp, the two-phase decoder of src/respv2) and the command       *)
(* parser of src/cmd.                                                      *)
(*                                                                         *)
(* A byte is a one-character string; a buffer is a sequence of bytes.      *)
(* A frame is a record [t |-> variant, v |-> payload].                     *)
(***************************************************************************)
EXTENDS Integers, Sequences, FiniteSets, TLC

VARIABLES
    frame,   \* the frame the peer sends, or NoFrame when it sends raw bytes
    wire,    \* the bytes the peer sends
    fed,     \* how many bytes of wire have been appended to buf
    buf,     \* the decoder's buffer (BytesMut)
    pre,     \* the buffer as it was when the last decode call started
    call,    \* the decode entry point called last ("" before any call)
    res,     \* what that call returned: [err, val]
    cmdIn,   \* the array handed to the command parser
    cmdOut,  \* what the command parser returned: [err, cmd]
    backend, \* the store: the string, the hash and the set table
    log,     \* the commands that have written to the store, oldest first
    reply,   \* the frame the last command executed returned
    sent,    \* the frames whose encodings the wire starts with, in order
    handlers, \* each request handler's command and how far it has got
    held     \* the guards on keys of the store the handlers hold

vars == <<frame, wire, fed, buf, pre, call, res, cmdIn, cmdOut, backend, log, reply,
          sent, handlers, held>>

---------------------------------------------------------------------------
(* Bounds of the model.                                                    *)

MaxText == 1
MaxBulk == 2
MaxItems == 2

---------------------------------------------------------------------------
(* Bytes and slices.                                                       *)

CR == "\r"
LF == "\n"
CRLF == <<CR, LF>>
CRLF_LEN == Len(CRLF)

\* A byte that is not valid UTF-8 on its own (0xFF), and U+FFFD.
BadByte == "\\xff"
Replacement == "\\ufffd"

Digits == <<"0", "1", "2", "3", "4", "5", "6", "7", "8", "9">>
IsDigit(c) == \E i \in 1..10 : Digits[i] = c
DigitVal(c) == (CHOOSE i \in 1..10 : Digits[i] = c) - 1

\* &s[n..], Buf::advance(n): what is left after the first n bytes.
Drop(s, n) == IF n >= Len(s) THEN <<>> ELSE SubSeq(s, n + 1, Len(s))
\* &s[..n], split_to(n): the first n bytes.
Take(s, n) == IF n >= Len(s) THEN s ELSE SubSeq(s, 1, n)
StartsWith(s, p) == Len(s) >= Len(p) /\ SubSeq(s, 1, Len(p)) = p

\* String::from_utf8_lossy and String::from_utf8 on the model's bytes.
from_utf8_lossy(s) == [i \in 1..Len(s) |-> IF s[i] = BadByte THEN Replacement ELSE s[i]]
is_utf8(s) == \A i \in 1..Len(s) : s[i] # BadByte

---------------------------------------------------------------------------
(* Numbers as text: format!("{}", n) and str::parse.                       *)

RECURSIVE fmt_usize(_)
fmt_usize(n) ==
    IF n < 10 THEN <<Digits[n + 1]>>
    ELSE fmt_usize(n \div 10) \o <<Digits[(n % 10) + 1]>>

fmt_i64(n) == IF n < 0 THEN <<"-">> \o fmt_usize(-n) ELSE fmt_usize(n)

AllDigits(s) == Len(s) > 0 /\ \A i \in 1..Len(s) : IsDigit(s[i])

RECURSIVE digits_value(_)
digits_value(s) ==
    IF Len(s) = 0 THEN 0
    ELSE digits_value(SubSeq(s, 1, Len(s) - 1)) * 10 + DigitVal(s[Len(s)])

\* str::parse::<usize>: an optional '+', then one or more digits.
parse_usize(s) ==
    LET body == IF Len(s) > 0 /\ s[1] = "+" THEN Tail(s) ELSE s
    IN  IF AllDigits(body) THEN [ok |-> TRUE, val |-> digits_value(body)]
        ELSE [ok |-> FALSE, val |-> 0]

\* str::parse::<i64>: an optional '+' or '-', then one or more digits.
parse_i64(s) ==
    LET signed == Len(s) > 0 /\ s[1] \in {"+", "-"}
        body == IF signed THEN Tail(s) ELSE s
    IN  IF ~AllDigits(body) THEN [ok |-> FALSE, val |-> 0]
        ELSE IF signed /\ s[1] = "-" THEN [ok |-> TRUE, val |-> 0 - digits_value(body)]
        ELSE [ok |-> TRUE, val |-> digits_value(body)]

\* A double is the decimal c * 10^e, kept as <<c, e>> with c not a multiple
\* of ten (zero is <<0, 0>>).
RECURSIVE normalize(_, _)
normalize(c, e) ==
    IF c = 0 THEN <<0, 0>>
    ELSE IF c % 10 = 0 THEN normalize(c \div 10, e + 1)
    ELSE <<c, e>>

Abs(n) == IF n < 0 THEN 0 - n ELSE n
Zeros(n) == [i \in 1..n |-> "0"]

\* Display for f64 ("{}"): plain decimal notation.
fmt_f64(d) ==
    LET ds == fmt_usize(Abs(d[1]))
        n == Len(ds)
        k == 0 - d[2]
        sign == IF d[1] < 0 THEN <<"-">> ELSE <<>>
    IN  IF d[2] >= 0 THEN sign \o ds \o Zeros(d[2])
        ELSE IF n > k THEN sign \o SubSeq(ds, 1, n - k) \o <<".">> \o SubSeq(ds, n - k + 1, n)
        ELSE sign \o <<"0", ".">> \o Zeros(k - n) \o ds

\* LowerExp for f64 with the sign forced ("{:+e}").
fmt_f64_exp(d) ==
    LET ds == fmt_usize(Abs(d[1]))
        n == Len(ds)
    IN  <<IF d[1] < 0 THEN "-" ELSE "+">> \o <<ds[1]>>
        \o (IF n > 1 THEN <<".">> \o SubSeq(ds, 2, n) ELSE <<>>)
        \o <<"e">> \o fmt_i64(d[2] + n - 1)

\* self.abs() > 1e+8 || self.abs() < 1e-8
f64_out_of_plain_range(d) ==
    LET n == Len(fmt_usize(Abs(d[1])))
        mag == n + d[2]
    IN  \/ d[1] = 0
        \/ mag > 9
        \/ mag = 9 /\ Abs(d[1]) # 1
        \/ mag <= 0 - 8

IndexOf(s, c) == IF \E i \in 1..Len(s) : s[i] = c
                 THEN CHOOSE i \in 1..Len(s) : s[i] = c /\ \A j \in 1..(i - 1) : s[j] # c
                 ELSE 0

\* str::parse::<f64> on [sign] digits [. digits] [e [sign] digits].
parse_f64(s) ==
    LET signed == Len(s) > 0 /\ s[1] \in {"+", "-"}
        neg == signed /\ s[1] = "-"
        body == IF signed THEN Tail(s) ELSE s
        ePos == IndexOf(body, "e")
        mant == IF ePos = 0 THEN body ELSE SubSeq(body, 1, ePos - 1)
        expo == IF ePos = 0 THEN <<"0">> ELSE SubSeq(body, ePos + 1, Len(body))
        dot == IndexOf(mant, ".")
        ip == IF dot = 0 THEN mant ELSE SubSeq(mant, 1, dot - 1)
        fp == IF dot = 0 THEN <<>> ELSE SubSeq(mant, dot + 1, Len(mant))
        ex == parse_i64(expo)
        good == /\ Len(ip) + Len(fp) > 0
                /\ \A i \in 1..Len(ip) : IsDigit(ip[i])
                /\ \A i \in 1..Len(fp) : IsDigit(fp[i])
                /\ ex.ok
        c == digits_value(ip \o fp)
    IN  IF ~good THEN [ok |-> FALSE, val |-> <<0, 0>>]
        ELSE [ok |-> TRUE,
              val |-> normalize(IF neg THEN 0 - c ELSE c, ex.val - Len(fp))]

---------------------------------------------------------------------------
(* The frame model (RespFrame and its variants).                           *)

SimpleString(s) == [t |-> "SimpleString", v |-> s]
SimpleError(s) == [t |-> "Error", v |-> s]
Integer(n) == [t |-> "Integer", v |-> n]
BulkString(b) == [t |-> "BulkString", v |-> b]
RespArray(fs) == [t |-> "Array", v |-> fs]
RespNull == [t |-> "Null", v |-> <<>>]
Boolean(b) == [t |-> "Boolean", v |-> b]
Double(d) == [t |-> "Double", v |-> d]
\* A map is its entries <<key, value>> in ascending key order (BTreeMap).
RespMap(es) == [t |-> "Map", v |-> es]
RespSet(fs) == [t |-> "Set", v |-> fs]
NoFrame == [t |-> "None", v |-> <<>>]

\* The order of bytes (u8) among the model's bytes, and of Strings.
ByteOrder == <<LF, CR, "+", "-", "0", "1", "2", "A", "K", "O", "a", "b", "f", "k">>
ByteRank(c) == IndexOf(ByteOrder, c)

RECURSIVE StrLess(_, _)
StrLess(a, b) ==
    IF Len(b) = 0 THEN FALSE
    ELSE IF Len(a) = 0 THEN TRUE
    ELSE IF a[1] = b[1] THEN StrLess(Tail(a), Tail(b))
    ELSE ByteRank(a[1]) < ByteRank(b[1])

\* An insert that keeps the entries in the order they were inserted.
RECURSIVE map_insert_at_end(_, _, _)
map_insert_at_end(es, key, value) ==
    IF Len(es) = 0 THEN << <<key, value>> >>
    ELSE IF es[1][1] = key THEN << <<key, value>> >> \o Tail(es)
    ELSE <<es[1]>> \o map_insert_at_end(Tail(es), key, value)

\* BTreeMap::insert on the sorted entries.
RECURSIVE map_insert(_, _, _)
map_insert(es, key, value) ==
    IF Len(es) = 0 THEN << <<key, value>> >>
    ELSE IF es[1][1] = key THEN << <<key, value>> >> \o Tail(es)
    ELSE IF StrLess(key, es[1][1]) THEN << <<key, value>> >> \o es
    ELSE <<es[1]>> \o map_insert(Tail(es), key, value)

---------------------------------------------------------------------------
(* RespEncode: one encoder per variant.                                    *)

SimpleString_encode(s) == <<"+">> \o s \o CRLF

SimpleError_encode(s) == <<"-">> \o s \o CRLF

i64_encode(n) == <<":">> \o fmt_i64(n) \o CRLF

\* BulkString::encode without the closing CRLF.
BulkString_encode_unterminated(b) ==
    IF Len(b) = 0 THEN <<"$", "-", "1", CR, LF>>
    ELSE <<"$">> \o fmt_usize(Len(b)) \o CRLF \o b

\* BulkString::encode without the special case for no bytes.
BulkString_encode_zero_length(b) ==
    <<"$">> \o fmt_usize(Len(b)) \o CRLF \o b \o CRLF

BulkString_encode(b) ==
    IF Len(b) = 0 THEN <<"$", "-", "1", CR, LF>>
    ELSE <<"$">> \o fmt_usize(Len(b)) \o CRLF \o b \o CRLF

RespNull_encode == <<"_">> \o CRLF

bool_encode(b) == <<"#", IF b THEN "t" ELSE "f">> \o CRLF

f64_encode(d) ==
    IF f64_out_of_plain_range(d) THEN <<",">> \o fmt_f64_exp(d) \o CRLF
    ELSE <<",">> \o (IF d[1] < 0 THEN <<>> ELSE <<"+">>) \o fmt_f64(d) \o CRLF

RECURSIVE RespFrame_encode(_)

RECURSIVE encode_each(_)
encode_each(fs) ==
    IF Len(fs) = 0 THEN <<>>
    ELSE RespFrame_encode(Head(fs)) \o encode_each(Tail(fs))

RECURSIVE encode_entries(_)
encode_entries(es) ==
    IF Len(es) = 0 THEN <<>>
    ELSE SimpleString_encode(es[1][1]) \o RespFrame_encode(es[1][2])
         \o encode_entries(Tail(es))

RespArray_encode(fs) ==
    IF Len(fs) = 0 THEN <<"*", "-", "1", CR, LF>>
    ELSE <<"*">> \o fmt_usize(Len(fs)) \o CRLF \o encode_each(fs)

RespMap_encode(es) == <<"%">> \o fmt_usize(Len(es)) \o CRLF \o encode_entries(es)

RespSet_encode(fs) == <<"~">> \o fmt_usize(Len(fs)) \o CRLF \o encode_each(fs)

RespFrame_encode(f) ==
    CASE f.t = "SimpleString" -> SimpleString_encode(f.v)
      [] f.t = "Error" -> SimpleError_encode(f.v)
      [] f.t = "Integer" -> i64_encode(f.v)
      [] f.t = "BulkString" -> BulkString_encode(f.v)
      [] f.t = "Array" -> RespArray_encode(f.v)
      [] f.t = "Null" -> RespNull_encode
      [] f.t = "Boolean" -> bool_encode(f.v)
      [] f.t = "Double" -> f64_encode(f.v)
      [] f.t = "Map" -> RespMap_encode(f.v)
      [] f.t = "Set" -> RespSet_encode(f.v)

---------------------------------------------------------------------------
(* RespDecode: the incremental decoder.  A decode call returns             *)
(* [err, val, buf]: err is "Ok" or the RespError, val the frame, buf the   *)
(* buffer as the call leaves it.  A length probe returns [err, n].         *)

Ok(val, b) == [err |-> "Ok", val |-> val, buf |-> b]
Err(e, b) == [err |-> e, val |-> NoFrame, buf |-> b]
Length(n) == [err |-> "Ok", n |-> n]
NoLength(e) == [err |-> e, n |-> 0]

extract_fixed_data(b, expect) ==
    IF Len(b) < Len(expect) THEN [err |-> "NotComplete", buf |-> b]
    ELSE IF ~StartsWith(b, expect) THEN [err |-> "InvalidFrameType", buf |-> b]
    ELSE [err |-> "Ok", buf |-> Drop(b, Len(expect))]

\* The offset of the first CRLF at or after offset 1, or -1.
find_crlf(b) ==
    IF \E j \in 2..(Len(b) - 1) : b[j] = CR /\ b[j + 1] = LF
    THEN (CHOOSE j \in 2..(Len(b) - 1) :
              /\ b[j] = CR /\ b[j + 1] = LF
              /\ \A i \in 2..(j - 1) : ~(b[i] = CR /\ b[i + 1] = LF)) - 1
    ELSE 0 - 1

extract_simple_frame_data(b, prefix) ==
    IF Len(b) < 3 THEN [err |-> "NotComplete", end |-> 0]
    ELSE IF b[1] # prefix THEN [err |-> "InvalidFrameType", end |-> 0]
    ELSE IF find_crlf(b) < 0 THEN [err |-> "NotComplete", end |-> 0]
    ELSE [err |-> "Ok", end |-> find_crlf(b)]

parse_length(b, prefix) ==
    LET r == extract_simple_frame_data(b, prefix)
        n == parse_usize(from_utf8_lossy(SubSeq(b, 2, r.end)))
    IN  IF r.err # "Ok" THEN [err |-> r.err, end |-> 0, len |-> 0]
        ELSE IF ~n.ok THEN [err |-> "ParseIntError", end |-> 0, len |-> 0]
        ELSE [err |-> "Ok", end |-> r.end, len |-> n.val]

SimpleString_decode(b) ==
    LET r == extract_simple_frame_data(b, "+")
    IN  IF r.err # "Ok" THEN Err(r.err, b)
        ELSE Ok(SimpleString(from_utf8_lossy(SubSeq(b, 2, r.end))),
                Drop(b, r.end + CRLF_LEN))

SimpleString_expect_length(b) ==
    LET r == extract_simple_frame_data(b, "+")
    IN  IF r.err # "Ok" THEN NoLength(r.err) ELSE Length(r.end + CRLF_LEN)

SimpleError_decode(b) ==
    LET r == extract_simple_frame_data(b, "-")
    IN  IF r.err # "Ok" THEN Err(r.err, b)
        ELSE Ok(SimpleError(from_utf8_lossy(SubSeq(b, 2, r.end))),
                Drop(b, r.end + CRLF_LEN))

SimpleError_expect_length(b) ==
    LET r == extract_simple_frame_data(b, "-")
    IN  IF r.err # "Ok" THEN NoLength(r.err) ELSE Length(r.end + CRLF_LEN)

i64_decode(b) ==
    LET r == extract_simple_frame_data(b, ":")
        n == parse_i64(from_utf8_lossy(SubSeq(b, 2, r.end)))
    IN  IF r.err # "Ok" THEN Err(r.err, b)
        ELSE IF ~n.ok THEN Err("ParseIntError", Drop(b, r.end + CRLF_LEN))
        ELSE Ok(Integer(n.val), Drop(b, r.end + CRLF_LEN))

i64_expect_length(b) ==
    LET r == extract_simple_frame_data(b, ":")
    IN  IF r.err # "Ok" THEN NoLength(r.err) ELSE Length(r.end + CRLF_LEN)

f64_decode(b) ==
    LET r == extract_simple_frame_data(b, ",")
        x == parse_f64(from_utf8_lossy(SubSeq(b, 2, r.end)))
    IN  IF r.err # "Ok" THEN Err(r.err, b)
        ELSE IF ~x.ok THEN Err("ParseFloatError", Drop(b, r.end + CRLF_LEN))
        ELSE Ok(Double(x.val), Drop(b, r.end + CRLF_LEN))

f64_expect_length(b) ==
    LET r == extract_simple_frame_data(b, ",")
    IN  IF r.err # "Ok" THEN NoLength(r.err) ELSE Length(r.end + CRLF_LEN)

RespNull_decode(b) ==
    LET r == extract_fixed_data(b, <<"_", CR, LF>>)
    IN  IF r.err # "Ok" THEN Err(r.err, b) ELSE Ok(RespNull, r.buf)

RespNull_expect_length(b) == Length(3)

bool_decode(b) ==
    LET t == extract_fixed_data(b, <<"#", "t", CR, LF>>)
        f == extract_fixed_data(b, <<"#", "f", CR, LF>>)
    IN  IF t.err = "Ok" THEN Ok(Boolean(TRUE), t.buf)
        ELSE IF t.err = "NotComplete" THEN Err("NotComplete", b)
        ELSE IF f.err = "Ok" THEN Ok(Boolean(FALSE), f.buf)
        ELSE Err(f.err, b)

bool_expect_length(b) == Length(4)

\* BulkString::decode without the check that the payload has arrived.
BulkString_decode_unchecked(b) ==
    LET null == extract_fixed_data(b, <<"$", "-", "1", CR, LF>>)
        h == parse_length(b, "$")
        remained == Drop(b, h.end + CRLF_LEN)
    IN  IF null.err = "Ok" THEN Ok(BulkString(<<>>), null.buf)
        ELSE IF h.err # "Ok" THEN Err(h.err, b)
        ELSE Ok(BulkString(Take(remained, h.len)), Drop(remained, h.len + CRLF_LEN))

\* BulkString::decode reporting an unreadable length as missing data.
BulkString_decode_lenient(b) ==
    LET null == extract_fixed_data(b, <<"$", "-", "1", CR, LF>>)
        h == parse_length(b, "$")
        remained == Drop(b, h.end + CRLF_LEN)
    IN  IF null.err = "Ok" THEN Ok(BulkString(<<>>), null.buf)
        ELSE IF h.err # "Ok" THEN Err("NotComplete", b)
        ELSE IF Len(remained) < h.len + CRLF_LEN THEN Err("NotComplete", b)
        ELSE Ok(BulkString(Take(remained, h.len)), Drop(remained, h.len + CRLF_LEN))

BulkString_decode(b) ==
    LET null == extract_fixed_data(b, <<"$", "-", "1", CR, LF>>)
        h == parse_length(b, "$")
        remained == Drop(b, h.end + CRLF_LEN)
    IN  IF null.err = "Ok" THEN Ok(BulkString(<<>>), null.buf)
        ELSE IF h.err # "Ok" THEN Err(h.err, b)
        ELSE IF Len(remained) < h.len + CRLF_LEN THEN Err("NotComplete", b)
        ELSE Ok(BulkString(Take(remained, h.len)), Drop(remained, h.len + CRLF_LEN))

BulkString_expect_length(b) ==
    LET h == parse_length(b, "$")
    IN  IF StartsWith(b, <<"$", "-", "1", CR, LF>>) THEN Length(5)
        ELSE IF h.err # "Ok" THEN NoLength(h.err)
        ELSE Length(h.end + CRLF_LEN + h.len + CRLF_LEN)


RECURSIVE RespFrame_decode(_), RespFrame_expect_length(_)

\* The loop of calc_total_length over n sub-frames (keyed: each preceded
\* by a SimpleString key): the sum of their probed lengths.
RECURSIVE sum_lengths(_, _, _)
sum_lengths(data, n, keyed) ==
    IF n = 0 THEN Length(0)
    ELSE LET add(m, more) ==
                 IF more.err # "Ok" THEN NoLength(more.err) ELSE Length(m + more.n)
             value(kn, x) ==
                 IF x.err # "Ok" THEN NoLength(x.err)
                 ELSE add(kn + x.n, sum_lengths(Drop(data, kn + x.n), n - 1, keyed))
             key(k) ==
                 IF k.err # "Ok" THEN NoLength(k.err)
                 ELSE value(k.n, RespFrame_expect_length(Drop(data, k.n)))
         IN  key(IF keyed THEN SimpleString_expect_length(data) ELSE Length(0))

calc_total_length(b, end, len, prefix) ==
    LET total == end + CRLF_LEN
        sum(inner) ==
            IF inner.err # "Ok" THEN NoLength(inner.err) ELSE Length(total + inner.n)
    IN  IF prefix \in {"*", "~", "%"}
        THEN sum(sum_lengths(Drop(b, total), len, prefix = "%"))
        ELSE Length(len + CRLF_LEN)

\* for _ in 0..len { frames.push(RespFrame::decode(buf)?) }
RECURSIVE decode_each(_, _)
decode_each(b, n) ==
    IF n = 0 THEN [err |-> "Ok", val |-> <<>>, buf |-> b]
    ELSE LET push(x, more) ==
                 IF more.err # "Ok" THEN more
                 ELSE [err |-> "Ok", val |-> <<x.val>> \o more.val, buf |-> more.buf]
             item(x) ==
                 IF x.err # "Ok" THEN [err |-> x.err, val |-> <<>>, buf |-> x.buf]
                 ELSE push(x, decode_each(x.buf, n - 1))
         IN  item(RespFrame_decode(b))

\* for _ in 0..len { key = SimpleString::decode(buf)?; value =
\* RespFrame::decode(buf)?; frames.insert(key.0, value) }
RECURSIVE decode_entries(_, _, _)
decode_entries(b, n, es) ==
    IF n = 0 THEN [err |-> "Ok", val |-> es, buf |-> b]
    ELSE LET value(k, x) ==
                 IF x.err # "Ok" THEN [err |-> x.err, val |-> <<>>, buf |-> x.buf]
                 ELSE decode_entries(x.buf, n - 1, map_insert(es, k.val.v, x.val))
             key(k) ==
                 IF k.err # "Ok" THEN [err |-> k.err, val |-> <<>>, buf |-> k.buf]
                 ELSE value(k, RespFrame_decode(k.buf))
         IN  key(SimpleString_decode(b))

\* RespArray::decode advancing past the header before the length check.
RespArray_decode_advance_first(b) ==
    LET frames(items) ==
            IF items.err # "Ok" THEN Err(items.err, items.buf)
            ELSE Ok(RespArray(items.val), items.buf)
        body(h, total) ==
            IF total.err # "Ok" THEN Err(total.err, Drop(b, h.end + CRLF_LEN))
            ELSE IF Len(b) < total.n THEN Err("NotComplete", Drop(b, h.end + CRLF_LEN))
            ELSE frames(decode_each(Drop(b, h.end + CRLF_LEN), h.len))
        header(h) ==
            IF h.err # "Ok" THEN Err(h.err, b)
            ELSE body(h, calc_total_length(b, h.end, h.len, "*"))
        start(null) ==
            IF null.err = "Ok" THEN Ok(RespArray(<<>>), null.buf)
            ELSE header(parse_length(b, "*"))
    IN  start(extract_fixed_data(b, <<"*", "-", "1", CR, LF>>))

\* RespArray::decode without the test for the null form.
RespArray_decode_no_null(b) ==
    LET frames(items) ==
            IF items.err # "Ok" THEN Err(items.err, items.buf)
            ELSE Ok(RespArray(items.val), items.buf)
        body(h, total) ==
            IF total.err # "Ok" THEN Err(total.err, b)
            ELSE IF Len(b) < total.n THEN Err("NotComplete", b)
            ELSE frames(decode_each(Drop(b, h.end + CRLF_LEN), h.len))
        header(h) ==
            IF h.err # "Ok" THEN Err(h.err, b)
            ELSE body(h, calc_total_length(b, h.end, h.len, "*"))
    IN  header(parse_length(b, "*"))

RespArray_decode(b) ==
    LET frames(items) ==
            IF items.err # "Ok" THEN Err(items.err, items.buf)
            ELSE Ok(RespArray(items.val), items.buf)
        body(h, total) ==
            IF total.err # "Ok" THEN Err(total.err, b)
            ELSE IF Len(b) < total.n THEN Err("NotComplete", b)
            ELSE frames(decode_each(Drop(b, h.end + CRLF_LEN), h.len))
        header(h) ==
            IF h.err # "Ok" THEN Err(h.err, b)
            ELSE body(h, calc_total_length(b, h.end, h.len, "*"))
        start(null) ==
            IF null.err = "Ok" THEN Ok(RespArray(<<>>), null.buf)
            ELSE header(parse_length(b, "*"))
    IN  start(extract_fixed_data(b, <<"*", "-", "1", CR, LF>>))

RespArray_expect_length(b) ==
    LET header(h) ==
            IF h.err # "Ok" THEN NoLength(h.err)
            ELSE calc_total_length(b, h.end, h.len, "*")
    IN  IF StartsWith(b, <<"*", "-", "1", CR, LF>>) THEN Length(5)
        ELSE header(parse_length(b, "*"))

RespMap_decode(b) ==
    LET frames(items) ==
            IF items.err # "Ok" THEN Err(items.err, items.buf)
            ELSE Ok(RespMap(items.val), items.buf)
        body(h, total) ==
            IF total.err # "Ok" THEN Err(total.err, b)
            ELSE IF Len(b) < total.n THEN Err("NotComplete", b)
            ELSE frames(decode_entries(Drop(b, h.end + CRLF_LEN), h.len, <<>>))
        header(h) ==
            IF h.err # "Ok" THEN Err(h.err, b)
            ELSE body(h, calc_total_length(b, h.end, h.len, "%"))
    IN  header(parse_length(b, "%"))

RespMap_expect_length(b) ==
    LET header(h) ==
            IF h.err # "Ok" THEN NoLength(h.err)
            ELSE calc_total_length(b, h.end, h.len, "%")
    IN  header(parse_length(b, "%"))

RespSet_decode(b) ==
    LET frames(items) ==
            IF items.err # "Ok" THEN Err(items.err, items.buf)
            ELSE Ok(RespSet(items.val), items.buf)
        body(h, total) ==
            IF total.err # "Ok" THEN Err(total.err, b)
            ELSE IF Len(b) < total.n THEN Err("NotComplete", b)
            ELSE frames(decode_each(Drop(b, h.end + CRLF_LEN), h.len))
        header(h) ==
            IF h.err # "Ok" THEN Err(h.err, b)
            ELSE body(h, calc_total_length(b, h.end, h.len, "~"))
    IN  header(parse_length(b, "~"))

RespSet_expect_length(b) ==
    LET header(h) ==
            IF h.err # "Ok" THEN NoLength(h.err)
            ELSE calc_total_length(b, h.end, h.len, "~")
    IN  header(parse_length(b, "~"))

RespFrame_decode(b) ==
    IF Len(b) = 0 THEN Err("NotComplete", b)
    ELSE CASE b[1] = "+" -> SimpleString_decode(b)
           [] b[1] = "-" -> SimpleError_decode(b)
           [] b[1] = ":" -> i64_decode(b)
           [] b[1] = "$" -> BulkString_decode(b)
           [] b[1] = "*" -> RespArray_decode(b)
           [] b[1] = "_" -> RespNull_decode(b)
           [] b[1] = "#" -> bool_decode(b)
           [] b[1] = "," -> f64_decode(b)
           [] b[1] = "%" -> RespMap_decode(b)
           [] b[1] = "~" -> RespSet_decode(b)
           [] OTHER -> Err("InvalidFrameType", b)

RespFrame_expect_length(b) ==
    IF Len(b) = 0 THEN NoLength("NotComplete")
    ELSE CASE b[1] = "+" -> SimpleString_expect_length(b)
           [] b[1] = "-" -> SimpleError_expect_length(b)
           [] b[1] = ":" -> i64_expect_length(b)
           [] b[1] = "$" -> BulkString_expect_length(b)
           [] b[1] = "*" -> RespArray_expect_length(b)
           [] b[1] = "_" -> RespNull_expect_length(b)
           [] b[1] = "#" -> bool_expect_length(b)
           [] b[1] = "," -> f64_expect_length(b)
           [] b[1] = "%" -> RespMap_expect_length(b)
           [] b[1] = "~" -> RespSet_expect_length(b)
           [] OTHER -> NoLength("InvalidFrameType")


---------------------------------------------------------------------------
(* RespDecodeV2: the two-phase decoder (winnow parsers over a slice).  A   *)
(* parser returns [ok, val, rest]: rest is the input it has not consumed.  *)

POk(val, rest) == [ok |-> TRUE, val |-> val, rest |-> rest]
PFail == [ok |-> FALSE, val |-> NoFrame, rest |-> <<>>]

\* take_until(0.., CRLF): the offset of the first "\r\n", or -1.
take_until(input) ==
    IF \E j \in 1..(Len(input) - 1) : input[j] = CR /\ input[j + 1] = LF
    THEN (CHOOSE j \in 1..(Len(input) - 1) :
              /\ input[j] = CR /\ input[j + 1] = LF
              /\ \A i \in 1..(j - 1) : ~(input[i] = CR /\ input[i + 1] = LF)) - 1
    ELSE 0 - 1

\* take_till(0.., CRLF): the bytes before the first '\r' or '\n' (all of
\* the input when it has neither).
take_till(input) ==
    IF \E j \in 1..Len(input) : input[j] \in {CR, LF}
    THEN (CHOOSE j \in 1..Len(input) :
              /\ input[j] \in {CR, LF}
              /\ \A i \in 1..(j - 1) : input[i] \notin {CR, LF}) - 1
    ELSE Len(input)

\* digit1: how many leading ASCII digits the input has.
digit1(input) ==
    IF \E j \in 1..Len(input) : ~IsDigit(input[j])
    THEN (CHOOSE j \in 1..Len(input) :
              /\ ~IsDigit(input[j])
              /\ \A i \in 1..(j - 1) : IsDigit(input[i])) - 1
    ELSE Len(input)

\* terminated(take_until(0.., CRLF), CRLF).value(())
simple_advance(input) ==
    IF take_until(input) < 0 THEN PFail
    ELSE POk(NoFrame, Drop(input, take_until(input) + CRLF_LEN))

\* terminated(take_till(0.., CRLF), CRLF), mapped through from_utf8_lossy
parse_string(input) ==
    LET n == take_till(input)
    IN  IF StartsWith(Drop(input, n), CRLF)
        THEN POk(from_utf8_lossy(Take(input, n)), Drop(input, n + CRLF_LEN))
        ELSE PFail

\* terminated(digit1.parse_to::<i64>(), CRLF)
unsigned_line(input) ==
    LET n == digit1(input)
    IN  IF n > 0 /\ StartsWith(Drop(input, n), CRLF)
        THEN POk(digits_value(Take(input, n)), Drop(input, n + CRLF_LEN))
        ELSE PFail

integer(input) ==
    LET signed == Len(input) > 0 /\ input[1] \in {"+", "-"}
        sign == IF signed /\ input[1] = "-" THEN 0 - 1 ELSE 1
        d == unsigned_line(IF signed THEN Tail(input) ELSE input)
    IN  IF d.ok THEN POk(sign * d.val, d.rest) ELSE PFail

\* terminated(take(len), CRLF)
take_line(input, len) ==
    IF Len(input) >= len /\ StartsWith(Drop(input, len), CRLF)
    THEN POk(Take(input, len), Drop(input, len + CRLF_LEN))
    ELSE PFail

RECURSIVE advance(_)

\* for _ in 0..len { advance(input)? }, each preceded by a key line when keyed
RECURSIVE advance_each(_, _, _)
advance_each(input, n, keyed) ==
    IF n <= 0 THEN POk(NoFrame, input)
    ELSE LET value(x) ==
                 IF ~x.ok THEN PFail ELSE advance_each(x.rest, n - 1, keyed)
             key(k) == IF ~k.ok THEN PFail ELSE value(advance(k.rest))
         IN  key(IF keyed THEN parse_string(input) ELSE POk(NoFrame, input))

bulk_string_advance(input) ==
    LET len == integer(input)
    IN  IF ~len.ok THEN PFail
        ELSE IF len.val = 0 - 1 \/ len.val = 0 THEN POk(NoFrame, len.rest)
        ELSE IF len.val < 0 THEN PFail
        ELSE take_line(len.rest, len.val)

array_advance(input) ==
    LET body(len) ==
            IF ~len.ok THEN PFail
            ELSE IF len.val = 0 - 1 \/ len.val = 0 THEN POk(NoFrame, len.rest)
            ELSE advance_each(len.rest, len.val, FALSE)
    IN  body(integer(input))

map_advance(input) ==
    LET body(len) ==
            IF ~len.ok THEN PFail
            ELSE IF len.val = 0 - 1 \/ len.val = 0 THEN POk(NoFrame, len.rest)
            ELSE advance_each(len.rest, len.val, TRUE)
    IN  body(integer(input))

set_advance(input) ==
    LET body(len) ==
            IF ~len.ok THEN PFail
            ELSE IF len.val = 0 - 1 \/ len.val = 0 THEN POk(NoFrame, len.rest)
            ELSE advance_each(len.rest, len.val, FALSE)
    IN  body(integer(input))

advance(input) ==
    IF Len(input) = 0 THEN PFail
    ELSE CASE input[1] \in {"+", "-", ":", "_", "#", ","} -> simple_advance(Tail(input))
           [] input[1] = "$" -> bulk_string_advance(Tail(input))
           [] input[1] = "*" -> array_advance(Tail(input))
           [] input[1] = "%" -> map_advance(Tail(input))
           [] input[1] = "~" -> set_advance(Tail(input))
           [] OTHER -> PFail

\* parse_frame_length passing on that the prefix byte is unknown.
parse_frame_length_reporting(input) ==
    LET span(ret) ==
            IF ret.ok THEN Length(Len(input) - Len(ret.rest))
            ELSE IF Len(input) > 0
                    /\ input[1] \notin {"+", "-", ":", "$", "*", "_", "#", ",", "%", "~"}
            THEN NoLength("InvalidFrame")
            ELSE NoLength("NotComplete")
    IN  span(advance(input))

parse_frame_length(input) ==
    LET span(ret) ==
            IF ret.ok THEN Length(Len(input) - Len(ret.rest)) ELSE NoLength("NotComplete")
    IN  span(advance(input))

RECURSIVE parse_frame(_)

RECURSIVE parse_each(_, _)
parse_each(input, n) ==
    IF n <= 0 THEN POk(<<>>, input)
    ELSE LET push(x, more) ==
                 IF ~more.ok THEN PFail ELSE POk(<<x.val>> \o more.val, more.rest)
             item(x) == IF ~x.ok THEN PFail ELSE push(x, parse_each(x.rest, n - 1))
         IN  item(parse_frame(input))

RECURSIVE parse_entries(_, _, _)
parse_entries(input, n, es) ==
    IF n <= 0 THEN POk(es, input)
    ELSE LET value(k, x) ==
                 IF ~x.ok THEN PFail
                 ELSE parse_entries(x.rest, n - 1, map_insert(es, k.val, x.val))
             key(k) == IF ~k.ok THEN PFail ELSE value(k, parse_frame(k.rest))
         IN  key(IF Len(input) > 0 /\ input[1] = "+"
                 THEN parse_string(Tail(input)) ELSE PFail)

simple_string(input) ==
    LET s == parse_string(input)
    IN  IF s.ok THEN POk(SimpleString(s.val), s.rest) ELSE PFail

simple_error(input) ==
    LET s == parse_string(input)
    IN  IF s.ok THEN POk(SimpleError(s.val), s.rest) ELSE PFail

bulk_string(input) ==
    LET len == unsigned_line(input)
        data == take_line(len.rest, len.val)
    IN  IF ~len.ok THEN PFail
        ELSE IF len.val = 0 - 1 THEN POk(BulkString(<<>>), len.rest)
        ELSE IF ~data.ok THEN PFail
        ELSE POk(BulkString(data.val), data.rest)

array(input) ==
    LET frames(items) ==
            IF ~items.ok THEN PFail ELSE POk(RespArray(items.val), items.rest)
        body(len) ==
            IF ~len.ok THEN PFail
            ELSE IF len.val = 0 - 1 THEN POk(RespArray(<<>>), len.rest)
            ELSE frames(parse_each(len.rest, len.val))
    IN  body(unsigned_line(input))

null(input) ==
    IF StartsWith(input, CRLF) THEN POk(RespNull, Drop(input, CRLF_LEN)) ELSE PFail

boolean(input) ==
    IF Len(input) > 0 /\ input[1] \in {"t", "f"} /\ StartsWith(Tail(input), CRLF)
    THEN POk(Boolean(input[1] = "t"), Drop(input, 1 + CRLF_LEN))
    ELSE PFail

\* terminated(float, CRLF): the longest float literal, then CRLF.
double(input) ==
    LET n == take_till(input)
        x == parse_f64(Take(input, n))
    IN  IF x.ok /\ StartsWith(Drop(input, n), CRLF)
        THEN POk(Double(x.val), Drop(input, n + CRLF_LEN))
        ELSE PFail

map(input) ==
    LET frames(items) ==
            IF ~items.ok THEN PFail ELSE POk(RespMap(items.val), items.rest)
        body(len) ==
            IF ~len.ok THEN PFail
            ELSE frames(parse_entries(len.rest, len.val, <<>>))
    IN  body(unsigned_line(input))

set(input) ==
    LET frames(items) ==
            IF ~items.ok THEN PFail ELSE POk(RespSet(items.val), items.rest)
        body(len) ==
            IF ~len.ok THEN PFail
            ELSE frames(parse_each(len.rest, len.val \div 2))
    IN  body(unsigned_line(input))

parse_frame(input) ==
    IF Len(input) = 0 THEN PFail
    ELSE CASE input[1] = "+" -> simple_string(Tail(input))
           [] input[1] = "-" -> simple_error(Tail(input))
           [] input[1] = ":" ->
                LET n == integer(Tail(input))
                IN  IF n.ok THEN POk(Integer(n.val), n.rest) ELSE PFail
           [] input[1] = "$" -> bulk_string(Tail(input))
           [] input[1] = "*" -> array(Tail(input))
           [] input[1] = "_" -> null(Tail(input))
           [] input[1] = "#" -> boolean(Tail(input))
           [] input[1] = "," -> double(Tail(input))
           [] input[1] = "%" -> map(Tail(input))
           [] input[1] = "~" -> set(Tail(input))
           [] OTHER -> PFail

RespDecodeV2_expect_length(b) == parse_frame_length(b)

\* RespDecodeV2 decode parsing before it splits the span off the buffer.
RespDecodeV2_decode_parse_first(b) ==
    LET frame_of(len, f) ==
            IF ~f.ok THEN Err("InvalidFrame", b)
            ELSE Ok(f.val, Drop(b, len.n))
        split(len) ==
            IF len.err # "Ok" THEN Err(len.err, b)
            ELSE frame_of(len, parse_frame(Take(b, len.n)))
    IN  split(RespDecodeV2_expect_length(b))

RespDecodeV2_decode(b) ==
    LET frame_of(len, f) ==
            IF ~f.ok THEN Err("InvalidFrame", Drop(b, len.n))
            ELSE Ok(f.val, Drop(b, len.n))
        split(len) ==
            IF len.err # "Ok" THEN Err(len.err, b)
            ELSE frame_of(len, parse_frame(Take(b, len.n)))
    IN  split(RespDecodeV2_expect_length(b))


---------------------------------------------------------------------------
(* The frames and the raw byte strings a peer may send.                    *)

SeqsUpTo(S, n) == UNION {[1..k -> S] : k \in 0..n}

HasCrlf(s) == \E i \in 1..(Len(s) - 1) : s[i] = CR /\ s[i + 1] = LF

\* Text of a SimpleString, an Error or a Map key: a line, so without CRLF.
Texts == {s \in SeqsUpTo({"a", CR, LF}, MaxText) : ~HasCrlf(s)}
\* The bytes of a BulkString: any bytes.
Bulks == SeqsUpTo({"a", CR, LF}, MaxBulk)
Ints == {0 - 12, 0 - 1, 0, 7, 120}
Doubles == {<<0, 0>>, <<15, 0 - 1>>, <<0 - 15, 0 - 1>>, <<2, 0>>, <<1, 8>>,
            <<123456, 3>>, <<0 - 123456, 0 - 14>>, <<5, 0 - 2>>}

Scalars ==
    {SimpleString(s) : s \in Texts} \cup {SimpleError(s) : s \in Texts}
    \cup {Integer(n) : n \in Ints} \cup {BulkString(b) : b \in Bulks}
    \cup {RespNull} \cup {Boolean(b) : b \in BOOLEAN} \cup {Double(d) : d \in Doubles}

\* What the collections of the model hold.
Items ==
    {SimpleString(<<"a">>), SimpleError(<<>>), Integer(0 - 1), BulkString(<<>>),
     BulkString(<<"a", CR>>), RespNull, Boolean(FALSE), Double(<<15, 0 - 1>>)}

Keys == {<<>>, <<"a">>, <<"b">>}

RECURSIVE entries_of(_, _)
entries_of(ks, vs) ==
    IF Len(ks) = 0 THEN <<>>
    ELSE map_insert(entries_of(Tail(ks), Tail(vs)), ks[1], vs[1])

MapsOver(S, n) ==
    {entries_of(ks, vs) : <<ks, vs>> \in
        UNION {[1..k -> Keys] \X [1..k -> S] : k \in 0..n}}

Flat ==
    {RespArray(fs) : fs \in SeqsUpTo(Items, MaxItems)}
    \cup {RespSet(fs) : fs \in SeqsUpTo(Items, MaxItems)}
    \cup {RespMap(es) : es \in MapsOver(Items, MaxItems)}

NestedItems ==
    {RespArray(<<>>), RespArray(<<BulkString(<<"a">>), Integer(7)>>),
     RespMap(<<>>), RespMap(<< <<<<"a">>, RespNull>> >>),
     RespSet(<<Boolean(TRUE)>>), BulkString(<<CR, LF>>)}

Nested ==
    {RespArray(fs) : fs \in SeqsUpTo(NestedItems, MaxItems)}
    \cup {RespSet(fs) : fs \in SeqsUpTo(NestedItems, MaxItems) \ {<<>>}}
    \cup {RespMap(es) : es \in MapsOver(NestedItems, 1) \ {<<>>}}

Frames == Scalars \cup Flat \cup Nested

\* Raw input: a header (prefix, length field, CRLF) and up to two pieces.
LenFields == {<<"-", "1">>, <<"0">>, <<"1">>, <<"2">>, <<"-", "2">>, <<"a">>, <<>>, <<"+", "1">>}
Pieces ==
    {<<>>, CRLF, <<":", "1">> \o CRLF, <<":", "a">> \o CRLF, <<"#", "t">> \o CRLF,
     <<"#", "a">> \o CRLF, <<"_">> \o CRLF, <<"+", "a">> \o CRLF, <<"a">> \o CRLF,
     <<"$", "-", "1">> \o CRLF, <<"a", "a">> \o CRLF, <<"_", "a", "a">>}
Tails == {<<>>, <<":", "1">> \o CRLF, <<"+", "a">> \o CRLF}

RawInputs ==
    {<<p>> \o l \o CRLF \o x \o y :
        p \in {"$", "*", "%", "~"}, l \in LenFields, x \in Pieces, y \in Tails}
    \cup {<<":", "-", "7">> \o CRLF, <<":", "+", "7">> \o CRLF, <<":", "a">> \o CRLF,
          <<"+", "a", CR, "a">> \o CRLF, <<"#", "a">> \o CRLF, <<"_", "a">> \o CRLF,
          <<",", "a">> \o CRLF, <<"?", "a">> \o CRLF}

---------------------------------------------------------------------------
(* Backend: the store.  Each table is a function from the keys written so  *)
(* far; a lookup returns [some, val].                                      *)

Some(v) == [some |-> TRUE, val |-> v]
None == [some |-> FALSE, val |-> NoFrame]

NoTable == [k \in {} |-> NoFrame]
Backend_new == [hmap |-> NoTable, map |-> NoTable, set |-> NoTable]

\* No request handler is running.
NoHandlers == [h \in {} |-> NoFrame]

\* insert(k, v) on a table
insert(table, k, v) ==
    [x \in DOMAIN table \cup {k} |-> IF x = k THEN v ELSE table[x]]

Backend_get(b, key) ==
    IF key \in DOMAIN b.map THEN Some(b.map[key]) ELSE None

\* Backend_set keeping the value a key already has.
Backend_set_first_wins(b, key, value) ==
    IF key \in DOMAIN b.map THEN b ELSE [b EXCEPT !.map = insert(b.map, key, value)]

Backend_set(b, key, value) == [b EXCEPT !.map = insert(b.map, key, value)]

Backend_hget(b, key, field) ==
    IF key \in DOMAIN b.hmap /\ field \in DOMAIN b.hmap[key]
    THEN Some(b.hmap[key][field]) ELSE None

\* Backend_hset leaving the hash table with the written key alone.
Backend_hset_alone(b, key, field, value) ==
    LET fields == IF key \in DOMAIN b.hmap THEN b.hmap[key] ELSE NoTable
    IN  [b EXCEPT !.hmap = insert(NoTable, key, insert(fields, field, value))]

Backend_hset(b, key, field, value) ==
    LET fields == IF key \in DOMAIN b.hmap THEN b.hmap[key] ELSE NoTable
    IN  [b EXCEPT !.hmap = insert(b.hmap, key, insert(fields, field, value))]

\* Backend_hmget leaving out the fields that are missing.
Backend_hmget_found(b, key, fields) ==
    LET found(f) == Backend_hget(b, key, f).some
    IN  RespArray([i \in 1..Len(SelectSeq(fields, found)) |->
            Backend_hget(b, key, SelectSeq(fields, found)[i]).val])

\* One result per field asked for, Null where the field is missing.
Backend_hmget(b, key, fields) ==
    RespArray([i \in 1..Len(fields) |->
        IF Backend_hget(b, key, fields[i]).some
        THEN Backend_hget(b, key, fields[i]).val ELSE RespNull])

Backend_add_member(b, key, member) ==
    LET members == IF key \in DOMAIN b.set THEN b.set[key] ELSE {}
    IN  [b EXCEPT !.set = insert(b.set, key, members \cup {member})]

\* As the store is described: the answer is 1 whatever the set holds.
Backend_sis_member(b, key, member) == Integer(1)

---------------------------------------------------------------------------
(* The decoder fed from a connection.                                      *)

Decoders == {"RespFrame", "BulkString", "RespArray", "RespMap", "RespDecodeV2"}

Run(d, b) ==
    CASE d = "RespFrame" -> RespFrame_decode(b)
      [] d = "BulkString" -> BulkString_decode(b)
      [] d = "RespArray" -> RespArray_decode(b)
      [] d = "RespMap" -> RespMap_decode(b)
      [] d = "RespDecodeV2" -> RespDecodeV2_decode(b)

NoResult == [err |-> "None", val |-> NoFrame]
NoCommand == [cmd |-> "None"]
NoOutcome == [cmd |-> NoCommand, err |-> "None"]

InitCodec ==
    /\ \/ frame \in Frames /\ wire = RespFrame_encode(frame)
       \/ frame = NoFrame /\ wire \in RawInputs
    /\ fed = 0
    /\ buf = <<>>
    /\ pre = <<>>
    /\ call = ""
    /\ res = NoResult
    /\ cmdIn = NoFrame
    /\ cmdOut = NoOutcome
    /\ backend = Backend_new /\ log = <<>> /\ reply = NoFrame
    /\ sent = IF frame = NoFrame THEN <<>> ELSE <<frame>>
    /\ handlers = NoHandlers /\ held = {}

\* The transport appends the next byte it has read to the buffer; the
\* result of the last call is dropped with the buffer it was about.
Feed ==
    /\ fed < Len(wire)
    /\ fed' = fed + 1
    /\ buf' = Append(buf, wire[fed + 1])
    /\ pre' = <<>>
    /\ call' = ""
    /\ res' = NoResult
    /\ UNCHANGED <<frame, wire, cmdIn, cmdOut, backend, log, reply, sent, handlers, held>>

\* A decode call on the buffer.
Decode(d) ==
    LET returns(r) ==
            /\ res' = [err |-> r.err, val |-> r.val]
            /\ buf' = r.buf
    IN  /\ pre' = buf
        /\ call' = d
        /\ returns(Run(d, buf))
        /\ UNCHANGED <<frame, wire, fed, cmdIn, cmdOut, backend, log, reply, sent, handlers, held>>

Next == Feed \/ \E d \in Decoders : Decode(d)

Spec == InitCodec /\ [][Next]_vars

---------------------------------------------------------------------------
(* The decoder on a pipeline: the peer has sent several frames back to     *)
(* back, and perhaps the beginning of one more.                            *)

MaxPipe == 2

PipeFrames ==
    {SimpleString(<<"a">>), Integer(7), BulkString(<<>>), BulkString(<<"a", CR>>),
     RespArray(<<Integer(7)>>), Boolean(TRUE)}

\* Strict prefixes of the encoding of a frame.
PipeTails == {<<>>, <<"$">>, <<"+", "a", CR>>, <<"*", "1">> \o CRLF}

RECURSIVE encode_all(_)
encode_all(fs) ==
    IF Len(fs) = 0 THEN <<>> ELSE RespFrame_encode(fs[1]) \o encode_all(Tail(fs))

InitPipe ==
    /\ frame = NoFrame
    /\ sent \in SeqsUpTo(PipeFrames, MaxPipe) \ {<<>>}
    /\ \E tail \in PipeTails : wire = encode_all(sent) \o tail
    /\ fed = 0
    /\ buf = <<>>
    /\ pre = <<>>
    /\ call = ""
    /\ res = NoResult
    /\ cmdIn = NoFrame
    /\ cmdOut = NoOutcome
    /\ backend = Backend_new /\ log = <<>> /\ reply = NoFrame
    /\ handlers = NoHandlers /\ held = {}

SpecPipe == InitPipe /\ [][Next]_vars


---------------------------------------------------------------------------
(* The command parser (TryFrom<RespArray> for Command and for each         *)
(* command).  A parse returns [cmd, err]: err is "Ok" or the CommandError. *)

Upper == <<"A", "B", "C", "D", "E", "F", "G", "H", "I", "J", "K", "L", "M",
           "N", "O", "P", "Q", "R", "S", "T", "U", "V", "W", "X", "Y", "Z">>
Lower == <<"a", "b", "c", "d", "e", "f", "g", "h", "i", "j", "k", "l", "m",
           "n", "o", "p", "q", "r", "s", "t", "u", "v", "w", "x", "y", "z">>

\* <[u8]>::to_ascii_lowercase
to_ascii_lowercase(s) ==
    [i \in 1..Len(s) |->
        IF IndexOf(Upper, s[i]) > 0 THEN Lower[IndexOf(Upper, s[i])] ELSE s[i]]

echo == <<"e", "c", "h", "o">>
get == <<"g", "e", "t">>
hget == <<"h", "g", "e", "t">>
hmget == <<"h", "m", "g", "e", "t">>
set_ == <<"s", "e", "t">>
hset == <<"h", "s", "e", "t">>
hgetall == <<"h", "g", "e", "t", "a", "l", "l">>
addmember == <<"a", "d", "d", "m", "e", "m", "b", "e", "r">>
sismember == <<"s", "i", "s", "m", "e", "m", "b", "e", "r">>

Parsed(c) == [cmd |-> c, err |-> "Ok"]
Failed(e) == [cmd |-> NoCommand, err |-> e]

validate_command(frames, cmds, arg_cnt) ==
    IF Len(frames) < Len(cmds) + arg_cnt THEN "InvalidCommand"
    ELSE IF \E i \in 1..Len(cmds) :
                \/ frames[i].t # "BulkString"
                \/ to_ascii_lowercase(frames[i].v) # cmds[i]
         THEN "InvalidCommand"
    ELSE "Ok"

extract_args(frames, start) == Drop(frames, start)

IsBulk(args, i) == Len(args) >= i /\ args[i].t = "BulkString"

Echo_try_from(value) ==
    LET args == extract_args(value, 1)
    IN  IF validate_command(value, <<echo>>, 1) # "Ok"
        THEN Failed(validate_command(value, <<echo>>, 1))
        ELSE IF ~IsBulk(args, 1) THEN Failed("InvalidCommand")
        ELSE IF ~is_utf8(args[1].v) THEN Failed("Utf8Error")
        ELSE Parsed([cmd |-> "Echo", message |-> args[1].v])

Get_try_from(value) ==
    LET args == extract_args(value, 1)
    IN  IF validate_command(value, <<get>>, 1) # "Ok"
        THEN Failed(validate_command(value, <<get>>, 1))
        ELSE IF ~IsBulk(args, 1) THEN Failed("InvalidArgument")
        ELSE IF ~is_utf8(args[1].v) THEN Failed("Utf8Error")
        ELSE Parsed([cmd |-> "Get", key |-> args[1].v])

Set_try_from(value) ==
    LET args == extract_args(value, 1)
    IN  IF validate_command(value, <<set_>>, 2) # "Ok"
        THEN Failed(validate_command(value, <<set_>>, 2))
        ELSE IF ~IsBulk(args, 1) THEN Failed("InvalidArgument")
        ELSE IF ~is_utf8(args[1].v) THEN Failed("Utf8Error")
        ELSE Parsed([cmd |-> "Set", key |-> args[1].v, value |-> args[2]])

HGet_try_from(value) ==
    LET args == extract_args(value, 1)
    IN  IF validate_command(value, <<hget>>, 2) # "Ok"
        THEN Failed(validate_command(value, <<hget>>, 2))
        ELSE IF ~(IsBulk(args, 1) /\ IsBulk(args, 2)) THEN Failed("InvalidArgument")
        ELSE IF ~is_utf8(args[1].v) \/ ~is_utf8(args[2].v) THEN Failed("Utf8Error")
        ELSE Parsed([cmd |-> "HGet", field |-> args[2].v, key |-> args[1].v])

\* parse_string_arg over the arguments, stopping at the first error.
RECURSIVE first_arg_error(_)
first_arg_error(args) ==
    IF Len(args) = 0 THEN "Ok"
    ELSE IF args[1].t # "BulkString" THEN "InvalidArgument"
    ELSE IF ~is_utf8(args[1].v) THEN "Utf8Error"
    ELSE first_arg_error(Tail(args))

\* HMGet_try_from leaving out the fields that are not strings.
HMGet_try_from_partial(value) ==
    LET args == extract_args(value, 1)
        good(a) == a.t = "BulkString" /\ is_utf8(a.v)
    IN  IF validate_command(value, <<hmget>>, 2) # "Ok"
        THEN Failed(validate_command(value, <<hmget>>, 2))
        ELSE IF first_arg_error(<<args[1]>>) # "Ok"
        THEN Failed(first_arg_error(<<args[1]>>))
        ELSE Parsed([cmd |-> "HMGet",
                     fields |-> [i \in 1..Len(SelectSeq(Tail(args), good)) |->
                                    SelectSeq(Tail(args), good)[i].v],
                     key |-> args[1].v])

HMGet_try_from(value) ==
    LET args == extract_args(value, 1)
    IN  IF validate_command(value, <<hmget>>, 2) # "Ok"
        THEN Failed(validate_command(value, <<hmget>>, 2))
        ELSE IF Len(args) < 2 THEN Failed("InvalidArgument")
        ELSE IF first_arg_error(args) # "Ok" THEN Failed(first_arg_error(args))
        ELSE Parsed([cmd |-> "HMGet",
                     fields |-> [i \in 1..(Len(args) - 1) |-> args[i + 1].v],
                     key |-> args[1].v])

\* HGetAll_try_from asking for the sorted answer.
HGetAll_try_from_sorted(value) ==
    LET args == extract_args(value, 1)
    IN  IF validate_command(value, <<hgetall>>, 1) # "Ok"
        THEN Failed(validate_command(value, <<hgetall>>, 1))
        ELSE IF ~IsBulk(args, 1) THEN Failed("InvalidArgument")
        ELSE IF ~is_utf8(args[1].v) THEN Failed("Utf8Error")
        ELSE Parsed([cmd |-> "HGetAll", key |-> args[1].v, sort |-> TRUE])

HGetAll_try_from(value) ==
    LET args == extract_args(value, 1)
    IN  IF validate_command(value, <<hgetall>>, 1) # "Ok"
        THEN Failed(validate_command(value, <<hgetall>>, 1))
        ELSE IF ~IsBulk(args, 1) THEN Failed("InvalidArgument")
        ELSE IF ~is_utf8(args[1].v) THEN Failed("Utf8Error")
        ELSE Parsed([cmd |-> "HGetAll", key |-> args[1].v, sort |-> FALSE])

\* HSet_try_from taking only a BulkString as the value.
HSet_try_from_bulk_value(value) ==
    LET args == extract_args(value, 1)
    IN  IF validate_command(value, <<hset>>, 3) # "Ok"
        THEN Failed(validate_command(value, <<hset>>, 3))
        ELSE IF ~(IsBulk(args, 1) /\ IsBulk(args, 2) /\ IsBulk(args, 3))
        THEN Failed("InvalidArgument")
        ELSE IF ~is_utf8(args[1].v) \/ ~is_utf8(args[2].v) THEN Failed("Utf8Error")
        ELSE Parsed([cmd |-> "HSet", field |-> args[2].v, key |-> args[1].v,
                     value |-> args[3]])

HSet_try_from(value) ==
    LET args == extract_args(value, 1)
    IN  IF validate_command(value, <<hset>>, 3) # "Ok"
        THEN Failed(validate_command(value, <<hset>>, 3))
        ELSE IF ~(IsBulk(args, 1) /\ IsBulk(args, 2)) THEN Failed("InvalidArgument")
        ELSE IF ~is_utf8(args[1].v) \/ ~is_utf8(args[2].v) THEN Failed("Utf8Error")
        ELSE Parsed([cmd |-> "HSet", field |-> args[2].v, key |-> args[1].v,
                     value |-> args[3]])

AddMember_try_from(value) ==
    LET args == extract_args(value, 1)
    IN  IF validate_command(value, <<addmember>>, 2) # "Ok"
        THEN Failed(validate_command(value, <<addmember>>, 2))
        ELSE IF ~(IsBulk(args, 1) /\ IsBulk(args, 2)) THEN Failed("InvalidCommand")
        ELSE IF ~is_utf8(args[1].v) \/ ~is_utf8(args[2].v) THEN Failed("Utf8Error")
        ELSE Parsed([cmd |-> "AddMember", key |-> args[1].v, member |-> args[2].v])

SisMember_try_from(value) ==
    LET args == extract_args(value, 1)
    IN  IF validate_command(value, <<sismember>>, 2) # "Ok"
        THEN Failed(validate_command(value, <<sismember>>, 2))
        ELSE IF ~(IsBulk(args, 1) /\ IsBulk(args, 2)) THEN Failed("InvalidCommand")
        ELSE IF ~is_utf8(args[1].v) \/ ~is_utf8(args[2].v) THEN Failed("Utf8Error")
        ELSE Parsed([cmd |-> "SisMember", key |-> args[1].v, member |-> args[2].v])

\* Command_try_from taking an element 0 of any type for an unknown name.
Command_try_from_any_first(value) ==
    IF Len(value) = 0 THEN Failed("InvalidCommand")
    ELSE IF value[1].t # "BulkString" THEN Parsed([cmd |-> "Unrecognized"])
    ELSE CASE value[1].v = echo -> Echo_try_from(value)
           [] value[1].v = get -> Get_try_from(value)
           [] value[1].v = set_ -> Set_try_from(value)
           [] value[1].v = hget -> HGet_try_from(value)
           [] value[1].v = hmget -> HMGet_try_from(value)
           [] value[1].v = hset -> HSet_try_from(value)
           [] value[1].v = hgetall -> HGetAll_try_from(value)
           [] value[1].v = addmember -> AddMember_try_from(value)
           [] value[1].v = sismember -> SisMember_try_from(value)
           [] OTHER -> Parsed([cmd |-> "Unrecognized"])

\* TryFrom<RespArray> for Command: value is the array's elements.
Command_try_from(value) ==
    IF Len(value) = 0 \/ value[1].t # "BulkString" THEN Failed("InvalidCommand")
    ELSE CASE value[1].v = echo -> Echo_try_from(value)
           [] value[1].v = get -> Get_try_from(value)
           [] value[1].v = set_ -> Set_try_from(value)
           [] value[1].v = hget -> HGet_try_from(value)
           [] value[1].v = hmget -> HMGet_try_from(value)
           [] value[1].v = hset -> HSet_try_from(value)
           [] value[1].v = hgetall -> HGetAll_try_from(value)
           [] value[1].v = addmember -> AddMember_try_from(value)
           [] value[1].v = sismember -> SisMember_try_from(value)
           [] OTHER -> Parsed([cmd |-> "Unrecognized"])

\* TryFrom<RespFrame> for Command
Command_try_from_frame(f) ==
    IF f.t = "Array" THEN Command_try_from(f.v) ELSE Failed("InvalidCommand")


---------------------------------------------------------------------------
(* The command parser's state machine: a decoded frame arrives and is      *)
(* parsed once.                                                            *)

MaxArgs == 4

to_ascii_uppercase(s) ==
    [i \in 1..Len(s) |->
        IF IndexOf(Lower, s[i]) > 0 THEN Upper[IndexOf(Lower, s[i])] ELSE s[i]]

capitalized(s) == <<to_ascii_uppercase(s)[1]>> \o Tail(s)

KnownNames == {echo, get, set_, hget, hmget, hset, hgetall, addmember, sismember}

\* The argument count each fixed-arity parser of echo.rs, hmap.rs and set.rs
\* passes to validate_command.
FixedArity ==
    [n \in {echo, hget, hset, hgetall, addmember, sismember} |->
        CASE n \in {echo, hgetall} -> 1
          [] n \in {hget, addmember, sismember} -> 2
          [] n = hset -> 3]

Spellings == UNION {{n, to_ascii_uppercase(n), capitalized(n)} : n \in KnownNames}

ArgValues == {BulkString(<<"k">>), BulkString(<<BadByte>>), Integer(1)}

CommandArrays ==
    {RespArray(<<h>> \o a) :
        h \in {BulkString(n) : n \in Spellings \cup {<<"f", "o", "o">>}} \cup {Integer(1)},
        a \in SeqsUpTo(ArgValues, MaxArgs)}

CommandInputs == CommandArrays \cup {RespArray(<<>>), SimpleString(<<"a">>), RespNull}

InitCmd ==
    /\ frame = NoFrame /\ wire = <<>> /\ fed = 0 /\ buf = <<>> /\ pre = <<>>
    /\ call = "" /\ res = NoResult
    /\ cmdIn \in CommandInputs
    /\ cmdOut = NoOutcome
    /\ backend = Backend_new /\ log = <<>> /\ reply = NoFrame
    /\ sent = <<>> /\ handlers = NoHandlers /\ held = {}

Parse ==
    /\ cmdOut = NoOutcome
    /\ cmdOut' = Command_try_from_frame(cmdIn)
    /\ UNCHANGED <<frame, wire, fed, buf, pre, call, res, cmdIn, backend, log, reply, sent, handlers, held>>

NextCmd == Parse

SpecCmd == InitCmd /\ [][NextCmd]_vars


---------------------------------------------------------------------------
(* CommandExecutor: what each command does to the store and what it        *)
(* returns, as [reply, backend].                                           *)

RESP_OK == SimpleString(<<"O", "K">>)

Done(r, b) == [reply |-> r, backend |-> b]

Echo_execute(c, b) == Done(BulkString(c.message), b)

Get_execute(c, b) ==
    IF Backend_get(b, c.key).some THEN Done(Backend_get(b, c.key).val, b)
    ELSE Done(RespNull, b)

Set_execute(c, b) == Done(RESP_OK, Backend_set(b, c.key, c.value))

\* HGet::execute making an empty hash for a key that has none.
HGet_execute_creating(c, b) ==
    IF Backend_hget(b, c.key, c.field).some
    THEN Done(Backend_hget(b, c.key, c.field).val, b)
    ELSE Done(RespNull,
              IF c.key \in DOMAIN b.hmap THEN b
              ELSE [b EXCEPT !.hmap = insert(b.hmap, c.key, NoTable)])

\* HGet::execute answering OK for a missing field.
HGet_execute_missing_ok(c, b) ==
    IF Backend_hget(b, c.key, c.field).some
    THEN Done(Backend_hget(b, c.key, c.field).val, b)
    ELSE Done(RESP_OK, b)

HGet_execute(c, b) ==
    IF Backend_hget(b, c.key, c.field).some
    THEN Done(Backend_hget(b, c.key, c.field).val, b)
    ELSE Done(RespNull, b)

HMGet_execute(c, b) == Done(Backend_hmget(b, c.key, c.fields), b)

\* data.sort_by(|a, b| a.0.cmp(&b.0)) over <<field, value>> pairs
RECURSIVE sort_by(_)
sort_by(data) ==
    IF Len(data) <= 1 THEN data
    ELSE LET place(sorted) ==
                 LET before == {i \in 1..Len(sorted) : StrLess(sorted[i][1], data[1][1])}
                 IN  Take(sorted, Cardinality(before)) \o <<data[1]>>
                         \o Drop(sorted, Cardinality(before))
         IN  place(sort_by(Tail(data)))

\* flat_map(|(k, v)| vec![BulkString::from(k).into(), v])
RECURSIVE flat_map(_)
flat_map(data) ==
    IF Len(data) = 0 THEN <<>>
    ELSE <<BulkString(data[1][1]), data[1][2]>> \o flat_map(Tail(data))

\* The orders in which iterating a table can visit its keys.
Iterations(table) ==
    {it \in [1..Cardinality(DOMAIN table) -> DOMAIN table] :
        \A i, j \in DOMAIN it : i # j => it[i] # it[j]}

\* HGetAll::execute answering Null for a key without a hash.
HGetAll_execute_null(c, b, iter) ==
    IF c.key \in DOMAIN b.hmap
    THEN LET data == [i \in 1..Len(iter) |-> <<iter[i], b.hmap[c.key][iter[i]]>>]
         IN  Done(RespArray(flat_map(IF c.sort THEN sort_by(data) ELSE data)), b)
    ELSE Done(RespNull, b)

\* HGetAll::execute without the sort.
HGetAll_execute_unsorted(c, b, iter) ==
    IF c.key \in DOMAIN b.hmap
    THEN Done(RespArray(flat_map([i \in 1..Len(iter) |->
                                     <<iter[i], b.hmap[c.key][iter[i]]>>])), b)
    ELSE Done(RespArray(<<>>), b)

\* iter is the order in which hmap.iter() visits the fields.
HGetAll_execute(c, b, iter) ==
    IF c.key \in DOMAIN b.hmap
    THEN LET data == [i \in 1..Len(iter) |-> <<iter[i], b.hmap[c.key][iter[i]]>>]
         IN  Done(RespArray(flat_map(IF c.sort THEN sort_by(data) ELSE data)), b)
    ELSE Done(RespArray(<<>>), b)

\* HSet::execute starting the hash of the key afresh.
HSet_execute_fresh(c, b) ==
    Done(RESP_OK, [b EXCEPT !.hmap = insert(b.hmap, c.key, insert(NoTable, c.field, c.value))])

\* HSet::execute keeping the value a field already has.
HSet_execute_if_absent(c, b) ==
    IF Backend_hget(b, c.key, c.field).some THEN Done(RESP_OK, b)
    ELSE Done(RESP_OK, Backend_hset(b, c.key, c.field, c.value))

HSet_execute(c, b) == Done(RESP_OK, Backend_hset(b, c.key, c.field, c.value))

\* AddMember::execute also storing the member in the string table.
AddMember_execute_in_strings(c, b) ==
    Done(Integer(1),
         Backend_set(Backend_add_member(b, c.key, c.member), c.key, BulkString(c.member)))

AddMember_execute(c, b) == Done(Integer(1), Backend_add_member(b, c.key, c.member))

SisMember_execute(c, b) == Done(Backend_sis_member(b, c.key, c.member), b)

\* Unrecognized::execute starting the store afresh.
Unrecognized_execute_reset(c, b) == Done(RESP_OK, Backend_new)

Unrecognized_execute(c, b) == Done(RESP_OK, b)

\* enum_dispatch over Command
Command_execute(c, b, iter) ==
    CASE c.cmd = "Get" -> Get_execute(c, b)
      [] c.cmd = "Set" -> Set_execute(c, b)
      [] c.cmd = "HGet" -> HGet_execute(c, b)
      [] c.cmd = "HMGet" -> HMGet_execute(c, b)
      [] c.cmd = "HSet" -> HSet_execute(c, b)
      [] c.cmd = "HGetAll" -> HGetAll_execute(c, b, iter)
      [] c.cmd = "Unrecognized" -> Unrecognized_execute(c, b)
      [] c.cmd = "Echo" -> Echo_execute(c, b)
      [] c.cmd = "SisMember" -> SisMember_execute(c, b)
      [] c.cmd = "AddMember" -> AddMember_execute(c, b)

---------------------------------------------------------------------------
(* The store under a sequence of commands: a command is built directly and *)
(* executed, or a request frame is parsed and the command executed.        *)

MaxWrites == 2
MaxFields == 2

StoreKeys == {<<"a">>, <<"b">>}
StoreFields == {<<"a", "b">>, <<"b">>}
StoreValues == {BulkString(<<"k">>), Integer(1)}
\* The values HSet is given: any frame is taken, the Null frame too.
HashValues == StoreValues \cup {RespNull}
StoreMembers == {<<"a">>, <<"b">>}
Added == {<<"a">>}

Commands ==
    {[cmd |-> "Get", key |-> k] : k \in StoreKeys}
    \cup {[cmd |-> "Set", key |-> k, value |-> v] : k \in StoreKeys, v \in StoreValues}
    \cup {[cmd |-> "HGet", field |-> f, key |-> k] : k \in StoreKeys, f \in StoreFields}
    \cup {[cmd |-> "HMGet", fields |-> fs, key |-> k] :
            k \in StoreKeys, fs \in SeqsUpTo(StoreFields, MaxFields) \ {<<>>}}
    \cup {[cmd |-> "HSet", field |-> f, key |-> k, value |-> v] :
            k \in StoreKeys, f \in StoreFields, v \in HashValues}
    \cup {[cmd |-> "HGetAll", key |-> k, sort |-> srt] :
            k \in StoreKeys, srt \in BOOLEAN}
    \cup {[cmd |-> "Unrecognized"], [cmd |-> "Echo", message |-> <<"k">>]}
    \cup {[cmd |-> "SisMember", key |-> k, member |-> m] :
            k \in StoreKeys, m \in StoreMembers}
    \cup {[cmd |-> "AddMember", key |-> k, member |-> m] :
            k \in StoreKeys, m \in Added}

Request(name, args) == RespArray(<<BulkString(name)>> \o args)

Requests ==
    {Request(get, <<BulkString(k)>>) : k \in StoreKeys}
    \cup {Request(set_, <<BulkString(k), v>>) : k \in StoreKeys, v \in StoreValues}
    \cup {Request(hget, <<BulkString(k), BulkString(f)>>) :
            k \in StoreKeys, f \in StoreFields}
    \cup {Request(hset, <<BulkString(k), BulkString(f), v>>) :
            k \in StoreKeys, f \in StoreFields, v \in HashValues}
    \cup {Request(<<"f", "o", "o">>, a) : a \in SeqsUpTo(StoreValues, 2)}
    \cup {Request(hmget, <<BulkString(<<"a">>)>>), RespArray(<<>>), RespNull}

Writes(c) == c.cmd \in {"Set", "HSet", "AddMember"}

\* The table hmap.iter() runs over when c is executed.
Iterated(c) ==
    IF c.cmd = "HGetAll" /\ c.key \in DOMAIN backend.hmap
    THEN backend.hmap[c.key] ELSE NoTable

InitStore ==
    /\ frame = NoFrame /\ wire = <<>> /\ fed = 0 /\ buf = <<>> /\ pre = <<>>
    /\ call = "" /\ res = NoResult
    /\ cmdIn = NoFrame
    /\ cmdOut = NoOutcome
    /\ backend = Backend_new /\ log = <<>> /\ reply = NoFrame
    /\ sent = <<>> /\ handlers = NoHandlers /\ held = {}

\* c.execute(&backend)
execute(c) ==
    /\ Writes(c) => Len(log) < MaxWrites
    /\ \E iter \in Iterations(Iterated(c)) :
        LET returns(r) == reply' = r.reply /\ backend' = r.backend
        IN  returns(Command_execute(c, backend, iter))
    /\ log' = IF Writes(c) THEN Append(log, c) ELSE log

\* A command built by its fields and executed.
Execute(c) ==
    /\ execute(c)
    /\ cmdIn' = NoFrame
    /\ cmdOut' = Parsed(c)
    /\ UNCHANGED <<frame, wire, fed, buf, pre, call, res, sent, handlers, held>>

\* let cmd: Command = frame.try_into()?; cmd.execute(&backend)
Handle(f) ==
    /\ cmdIn' = f
    /\ cmdOut' = Command_try_from_frame(f)
    /\ IF Command_try_from_frame(f).err = "Ok"
       THEN execute(Command_try_from_frame(f).cmd)
       ELSE reply' = NoFrame /\ UNCHANGED <<backend, log>>
    /\ UNCHANGED <<frame, wire, fed, buf, pre, call, res, sent, handlers, held>>

NextStore ==
    \/ \E c \in Commands : Execute(c)
    \/ \E f \in Requests : Handle(f)

SpecStore == InitStore /\ [][NextStore]_vars

---------------------------------------------------------------------------
(* Request handlers running concurrently against one shared store.  Each   *)
(* handler executes one command at a time; a command takes the lock of its *)
(* key in its table, acts on the table under that lock and releases it     *)
(* when it returns.  HGetAll holds the reference it got from               *)
(* backend.hmap.get(&key) while it walks over the fields.                  *)

MaxHandlers == 2
MaxWritten == 3

Handlers == 1..MaxHandlers
ConcKeys == StoreKeys
ConcFields == StoreFields

\* The commands handler h sends: what it writes is its own value.
ConcCommands(h) ==
    {[cmd |-> "HSet", field |-> f, key |-> k, value |-> Integer(h)] :
        k \in ConcKeys, f \in ConcFields}
    \cup {[cmd |-> "HGet", field |-> f, key |-> k] : k \in ConcKeys, f \in ConcFields}
    \cup {[cmd |-> "HGetAll", key |-> k, sort |-> FALSE] : k \in ConcKeys}

Idle == [pc |-> "idle", cmd |-> NoCommand, seen |-> <<>>, ret |-> NoFrame, snaps |-> {}]

\* The table a command works on.
TableOf(c) ==
    CASE c.cmd \in {"Get", "Set"} -> "map"
      [] c.cmd \in {"HGet", "HMGet", "HGetAll", "HSet"} -> "hmap"
      [] c.cmd \in {"AddMember", "SisMember"} -> "set"

\* What table TableOf(c) of store b holds under c's key: nothing, the value,
\* or the <<field, value>> pairs of the hash.
Entry(c, b) ==
    IF c.key \notin DOMAIN b[TableOf(c)] THEN {}
    ELSE IF TableOf(c) = "hmap"
         THEN {{<<f, b.hmap[c.key][f]>> : f \in DOMAIN b.hmap[c.key]}}
         ELSE {b[TableOf(c)][c.key]}

\* The handlers between the call of a command and its return.
Running(h) == handlers[h].pc \in {"called", "locked"}
Writing(h) == Running(h) /\ Writes(handlers[h].cmd)

\* Two guards on the same table exclude each other on every key.
Conflicts_table_wide(g1, g2) ==
    g1.table = g2.table /\ (g1.mode = "w" \/ g2.mode = "w")

\* Two guards exclude each other when they are on the same key of the same
\* table and one of them is a writer's.
Conflicts(g1, g2) ==
    g1.table = g2.table /\ g1.key = g2.key /\ (g1.mode = "w" \/ g2.mode = "w")

\* The guard a Backend method takes for command c of handler h.
Backend_guard(h, c) ==
    {[h |-> h, table |-> TableOf(c), key |-> c.key,
      mode |-> IF Writes(c) THEN "w" ELSE "r"]}

\* HGetAll reading the hash without keeping a reference to it.
HGetAll_guard_dropped(h, c) == {}

\* let hmap = backend.hmap.get(&self.key): a shared reference to the key's
\* entry, alive until execute returns.
HGetAll_guard(h, c) ==
    {[h |-> h, table |-> "hmap", key |-> c.key, mode |-> "r"]}

guard(h, c) == IF c.cmd = "HGetAll" THEN HGetAll_guard(h, c) ELSE Backend_guard(h, c)

\* Handler h waits for a guard another handler holds.
Blocked(h) ==
    \E g \in held, w \in guard(h, handlers[h].cmd) : g.h # h /\ Conflicts(g, w)

\* What the handlers that are running a command on the key c wrote see of
\* the key from now on.
Observe(hs, c, b) ==
    [g \in DOMAIN hs |->
        IF hs[g].pc \in {"called", "locked"} /\ ~Writes(hs[g].cmd)
              /\ TableOf(hs[g].cmd) = TableOf(c) /\ hs[g].cmd.key = c.key
        THEN [hs[g] EXCEPT !.snaps = @ \cup {Entry(hs[g].cmd, b)}]
        ELSE hs[g]]

InitConc ==
    /\ frame = NoFrame /\ wire = <<>> /\ fed = 0 /\ buf = <<>> /\ pre = <<>>
    /\ call = "" /\ res = NoResult
    /\ cmdIn = NoFrame
    /\ cmdOut = NoOutcome
    /\ backend = Backend_new /\ log = <<>> /\ reply = NoFrame
    /\ sent = <<>>
    /\ handlers = [h \in Handlers |-> Idle]
    /\ held = {}

\* Handler h has parsed command c and calls c.execute(&backend).
Call(h, c) ==
    /\ ~Running(h)
    /\ Writes(c) =>
         Len(log) + Cardinality({g \in DOMAIN handlers : Writing(g)}) < MaxWritten
    /\ handlers' = [handlers EXCEPT ![h] =
            [pc |-> "called", cmd |-> c, seen |-> <<>>, ret |-> NoFrame,
             snaps |-> IF Writes(c) THEN {} ELSE {Entry(c, backend)}]]
    /\ UNCHANGED <<backend, log, held>>
    /\ UNCHANGED <<frame, wire, fed, buf, pre, call, res, cmdIn, cmdOut, reply, sent>>

\* The command of h gets hold of its key; HGetAll of a key without a hash
\* returns at once.
Lock(h) ==
    /\ handlers[h].pc = "called"
    /\ ~Blocked(h)
    /\ IF handlers[h].cmd.cmd = "HGetAll" /\ Entry(handlers[h].cmd, backend) = {}
       THEN /\ handlers' = [handlers EXCEPT ![h].pc = "returned",
                                            ![h].ret = RespArray(<<>>)]
            /\ held' = held
       ELSE /\ handlers' = [handlers EXCEPT ![h].pc = "locked"]
            /\ held' = held \cup guard(h, handlers[h].cmd)
    /\ UNCHANGED <<backend, log>>
    /\ UNCHANGED <<frame, wire, fed, buf, pre, call, res, cmdIn, cmdOut, reply, sent>>

\* The fields hmap.iter() has still to yield to h.
Unvisited(h) ==
    LET c == handlers[h].cmd
        seen == handlers[h].seen
    IN  IF c.cmd = "HGetAll" /\ c.key \in DOMAIN backend.hmap
        THEN DOMAIN backend.hmap[c.key] \ {seen[i][1] : i \in DOMAIN seen}
        ELSE {}

\* for v in hmap.iter() { data.push((key, v.value().clone())) }, one field
Visit(h) ==
    /\ handlers[h].pc = "locked"
    /\ \E f \in Unvisited(h) :
         handlers' = [handlers EXCEPT ![h].seen =
                         Append(@, <<f, backend.hmap[handlers[h].cmd.key][f]>>)]
    /\ UNCHANGED <<backend, log, held>>
    /\ UNCHANGED <<frame, wire, fed, buf, pre, call, res, cmdIn, cmdOut, reply, sent>>

\* What HGetAll answers once data holds every field.
HGetAll_collect(c, data) ==
    RespArray(flat_map(IF c.sort THEN sort_by(data) ELSE data))

\* The command of h acts on the store, lets go of its key and returns.
Return(h) ==
    LET c == handlers[h].cmd
        returned(r) ==
            /\ backend' = r.backend
            /\ log' = IF Writes(c) THEN Append(log, c) ELSE log
            /\ handlers' = [Observe(handlers, c, r.backend) EXCEPT
                                ![h].pc = "returned", ![h].ret = r.reply,
                                ![h].seen = <<>>]
    IN  /\ handlers[h].pc = "locked"
        /\ Unvisited(h) = {}
        /\ IF c.cmd = "HGetAll"
           THEN returned(Done(HGetAll_collect(c, handlers[h].seen), backend))
           ELSE returned(Command_execute(c, backend, <<>>))
        /\ held' = {g \in held : g.h # h}
        /\ UNCHANGED <<frame, wire, fed, buf, pre, call, res, cmdIn, cmdOut, reply, sent>>

NextConc ==
    \/ \E h \in Handlers : \E c \in ConcCommands(h) : Call(h, c)
    \/ \E h \in Handlers : Lock(h)
    \/ \E h \in Handlers : Visit(h)
    \/ \E h \in Handlers : Return(h)

SpecConc == InitConc /\ [][NextConc]_vars

---------------------------------------------------------------------------
(* Handlers that all work on one field of one key, under a fair runtime.   *)

MaxWorkers == 3

Workers == 1..MaxWorkers

\* The commands worker h sends.
LiveCommands(h) ==
    {[cmd |-> "HSet", field |-> <<"b">>, key |-> <<"a">>, value |-> Integer(h)],
     [cmd |-> "HGet", field |-> <<"b">>, key |-> <<"a">>],
     [cmd |-> "HGetAll", key |-> <<"a">>, sort |-> FALSE]}

InitLive ==
    /\ frame = NoFrame /\ wire = <<>> /\ fed = 0 /\ buf = <<>> /\ pre = <<>>
    /\ call = "" /\ res = NoResult
    /\ cmdIn = NoFrame
    /\ cmdOut = NoOutcome
    /\ backend = Backend_new /\ log = <<>> /\ reply = NoFrame
    /\ sent = <<>>
    /\ handlers = [h \in Workers |-> Idle]
    /\ held = {}

NextLive ==
    \/ \E h \in Workers : \E c \in LiveCommands(h) : Call(h, c)
    \/ \E h \in Workers : Lock(h)
    \/ \E h \in Workers : Visit(h)
    \/ \E h \in Workers : Return(h)

\* A handler inside execute keeps running, and a handler that waits for
\* the lock of a key gets it if the lock is free again and again.
FairLive ==
    \A h \in Workers :
        WF_vars(Visit(h)) /\ WF_vars(Return(h)) /\ SF_vars(Lock(h))

SpecLive == InitLive /\ [][NextLive]_vars /\ FairLive

---------------------------------------------------------------------------
(* Properties of the incremental and the batch codec, checked under Spec.  *)

NullBulk == <<"$", "-", "1", CR, LF>>
ZeroBulk == <<"$", "0", CR, LF, CR, LF>>
NullArray == <<"*", "-", "1", CR, LF>>
ZeroArray == <<"*", "0", CR, LF>>

\* A decode call has returned a frame.
Returned == res.err = "Ok"
\* A decode call has failed with an error other than NotComplete.
Malformed == res.err \notin {"None", "Ok", "NotComplete"}

C2_WitnessPrefix ==
    /\ frame.t = "Array" /\ Len(frame.v) = 2 /\ frame.v[1].t = "Map"
    /\ call = "RespFrame" /\ fed = Len(wire) - 1 /\ pre = SubSeq(wire, 1, fed)
    /\ res.err = "NotComplete"

C3_NotCompleteKeepsBuffer == (res.err = "NotComplete") => (buf = pre)

\* The batch decoder has refused an array whose element has not arrived.
C3_Witness ==
    /\ call = "RespDecodeV2" /\ res.err = "NotComplete"
    /\ Len(pre) > 4 /\ pre[1] = "*" /\ buf = pre

\* An incremental array decode has refused a buffer that holds the header
\* and a part of the elements.
C3_WitnessArray ==
    /\ call = "RespArray" /\ res.err = "NotComplete"
    /\ Len(pre) > 4 /\ pre[1] = "*" /\ buf = pre

\* C4: a failed decode of an Array, Map or Set (NotComplete or malformed)
\* leaves the buffer byte for byte unchanged.
C4_FailedDecodeKeepsBuffer ==
    (/\ call \in {"RespFrame", "RespArray", "RespMap"}
     /\ Len(pre) > 0 /\ pre[1] \in {"*", "%", "~"}
     /\ res.err \notin {"None", "Ok"})
        => (buf = pre)

\* C5: when phase 1 of the batch codec (parse_frame_length) returns a length
\* n for the buffer, phase 2 (parse_frame) on the first n bytes succeeds and
\* consumes exactly those n bytes.
C5_PhasesAgree ==
    (call = "RespDecodeV2" /\ parse_frame_length(pre).err = "Ok")
        => /\ parse_frame(Take(pre, parse_frame_length(pre).n)).ok
           /\ parse_frame(Take(pre, parse_frame_length(pre).n)).rest = <<>>
           /\ Returned

\* C6 as claimed: the zero-length form and the -1 form of BulkString and
\* Array each re-encode to themselves after decoding, and the two forms
\* decode to different values.
C6_FormsDistinct ==
    (call = "RespFrame" /\ Returned /\ pre \in {NullBulk, ZeroBulk, NullArray, ZeroArray})
        => /\ RespFrame_encode(res.val) = pre
           /\ pre = ZeroBulk => res.val # RespFrame_decode(NullBulk).val
           /\ pre = ZeroArray => res.val # RespFrame_decode(NullArray).val

\* C6 as amended: the zero-length form and the -1 form decode to the same
\* empty value, and that value encodes to the -1 form.
C6_FormsMerge ==
    /\ (call \in {"RespFrame", "BulkString"} /\ pre \in {NullBulk, ZeroBulk})
           => /\ Returned /\ res.val = BulkString(<<>>) /\ buf = <<>>
              /\ RespFrame_encode(res.val) = NullBulk
    /\ (call \in {"RespFrame", "RespArray"} /\ pre \in {NullArray, ZeroArray})
           => /\ Returned /\ res.val = RespArray(<<>>) /\ buf = <<>>
              /\ RespFrame_encode(res.val) = NullArray

\* The zero-length bulk string has been decoded.
C6_Witness ==
    call = "RespFrame" /\ pre = ZeroBulk /\ res.val = BulkString(<<>>)

\* The zero-length array has been decoded.
C6_WitnessArray ==
    call = "RespArray" /\ pre = ZeroArray /\ res.val = RespArray(<<>>)

\* C7: a BulkString of no bytes encodes to $-1\r\n and an Array of no
\* elements to *-1\r\n; decoding $-1\r\n or *-1\r\n returns the empty
\* BulkString or Array and consumes exactly those 5 bytes.
C7_EmptyIsNullForm ==
    /\ frame = BulkString(<<>>) => wire = NullBulk
    /\ frame = RespArray(<<>>) => wire = NullArray
    /\ (call \in {"RespFrame", "BulkString"} /\ StartsWith(pre, NullBulk))
           => Returned /\ res.val = BulkString(<<>>) /\ buf = Drop(pre, 5)
    /\ (call \in {"RespFrame", "RespArray"} /\ StartsWith(pre, NullArray))
           => Returned /\ res.val = RespArray(<<>>) /\ buf = Drop(pre, 5)

\* The null array, followed by more bytes, has been decoded.
C7_Witness ==
    /\ call = "RespArray" /\ StartsWith(pre, NullArray) /\ Len(pre) > 5
    /\ res.val = RespArray(<<>>) /\ buf = Drop(pre, 5)

\* The empty bulk string has been encoded and decoded.
C7_WitnessBulk ==
    /\ frame = BulkString(<<>>) /\ wire = NullBulk
    /\ call = "BulkString" /\ pre = wire /\ res.val = frame /\ buf = <<>>

\* The length field of a buffer: the bytes between the prefix and the first
\* CRLF; it is there once the CRLF has arrived.
HasLengthField(b) == Len(b) >= 3 /\ find_crlf(b) >= 0
LengthField(b) == SubSeq(b, 2, find_crlf(b))
BadLength(b) ==
    /\ HasLengthField(b)
    /\ LengthField(b) # <<"-", "1">>
    /\ \/ ~parse_i64(LengthField(b)).ok
       \/ parse_i64(LengthField(b)).val < 0

\* C8: incremental decoding of a BulkString or an Array whose length field
\* is not a number, or is negative and not -1, fails with a malformed-input
\* error: it returns neither NotComplete nor a frame.
C8_BadLengthIsMalformed ==
    /\ (call \in {"RespFrame", "BulkString"} /\ Len(pre) > 0 /\ pre[1] = "$"
        /\ BadLength(pre)) => Malformed
    /\ (call \in {"RespFrame", "RespArray"} /\ Len(pre) > 0 /\ pre[1] = "*"
        /\ BadLength(pre)) => Malformed

\* A bulk string of length -2 has been refused.
C8_Witness ==
    /\ call = "BulkString" /\ StartsWith(pre, <<"$", "-", "2", CR, LF>>)
    /\ res.err = "ParseIntError"

\* An array whose length is a letter has been refused.
C8_WitnessArray ==
    /\ call = "RespArray" /\ StartsWith(pre, <<"*", "a", CR, LF>>)
    /\ res.err = "ParseIntError"


---------------------------------------------------------------------------
(* Properties of the command parser, checked under SpecCmd.                *)

\* The frame parsed is an array whose element 0 is a BulkString.
Named == cmdIn.t = "Array" /\ Len(cmdIn.v) > 0 /\ cmdIn.v[1].t = "BulkString"
\* The same array with element 0 spelled in lower case.
Lowercased ==
    <<BulkString(to_ascii_lowercase(cmdIn.v[1].v))>> \o Tail(cmdIn.v)

\* C9: command names are matched without regard to case: an array whose
\* element 0 is a known name in any mix of upper and lower case parses to
\* the same command as the all-lowercase spelling, never to Unrecognized.
\* Stated for the names whose parsers are in echo.rs, hmap.rs and set.rs.
C9_NameCaseInsensitive ==
    (/\ cmdOut # NoOutcome /\ Named
     /\ to_ascii_lowercase(cmdIn.v[1].v) \in KnownNames \ {get, set_}
     /\ Command_try_from(Lowercased).err = "Ok")
        => /\ cmdOut = Command_try_from(Lowercased)
           /\ cmdOut.cmd.cmd # "Unrecognized"

\* C10: a fixed-arity command is accepted only when the array holds exactly
\* the name and its arguments: with fewer or with more elements the parser
\* fails with a CommandError and produces no command.  Stated for ECHO,
\* HGET, HSET, HGETALL, ADDMEMBER and SISMEMBER, in their lower-case spelling.
C10_ExactArity ==
    (/\ cmdOut # NoOutcome /\ Named
     /\ cmdIn.v[1].v \in DOMAIN FixedArity
     /\ Len(cmdIn.v) # 1 + FixedArity[cmdIn.v[1].v])
        => (cmdOut.err # "Ok" /\ cmdOut.cmd = NoCommand)

\* C11: parsing fails with InvalidCommand, and yields no command at all,
\* when the input is not an Array, is an Array with no elements, or is an
\* Array whose element 0 is not a BulkString.
C11_NotACommand ==
    (cmdOut # NoOutcome /\ ~Named) => cmdOut = Failed("InvalidCommand")

\* element 0 is an Integer
C11_Witness ==
    /\ cmdOut = Failed("InvalidCommand")
    /\ cmdIn.t = "Array" /\ Len(cmdIn.v) > 1 /\ cmdIn.v[1].t = "Integer"

C11_WitnessEmpty == cmdOut = Failed("InvalidCommand") /\ cmdIn = RespArray(<<>>)

C11_WitnessNotArray == cmdOut = Failed("InvalidCommand") /\ cmdIn.t = "SimpleString"

RECURSIVE Concat(_)
Concat(ss) == IF Len(ss) = 0 THEN <<>> ELSE ss[1] \o Concat(Tail(ss))

\* The entries es inserted one after the other into an empty map.
RECURSIVE InsertAll(_)
InsertAll(es) ==
    IF Len(es) = 0 THEN <<>>
    ELSE map_insert(InsertAll(SubSeq(es, 1, Len(es) - 1)), es[Len(es)][1], es[Len(es)][2])

Perms(n) == {p \in [1..n -> 1..n] : \A i, j \in 1..n : i # j => p[i] # p[j]}

\* A one-entry map whose key is a complete frame that is no SimpleString.
NonStringKeys ==
    {<<":", "1">> \o CRLF, <<"#", "t">> \o CRLF, <<"_">> \o CRLF, <<"$", "-", "1">> \o CRLF}
BadKeyMaps ==
    {<<"%", "1">> \o CRLF \o x \o y : x \in NonStringKeys, y \in Tails \ {<<>>}}

\* C25: a Map is encoded with its entries in ascending key order, each key
\* as a SimpleString frame, whatever the order the entries were inserted in;
\* decoding a Map whose entry key is a frame other than a SimpleString
\* returns an error other than NotComplete and no Map.
C25_MapCodec ==
    /\ frame.t = "Map" =>
        /\ \A i \in 1..(Len(frame.v) - 1) : StrLess(frame.v[i][1], frame.v[i + 1][1])
        /\ wire = <<"%">> \o fmt_usize(Len(frame.v)) \o CRLF
                    \o Concat([i \in 1..Len(frame.v) |->
                            <<"+">> \o frame.v[i][1] \o CRLF \o RespFrame_encode(frame.v[i][2])])
        /\ \A p \in Perms(Len(frame.v)) :
            InsertAll([i \in 1..Len(frame.v) |-> frame.v[p[i]]]) = frame.v
    /\ (call \in {"RespFrame", "RespMap"} /\ pre \in BadKeyMaps) =>
        (Malformed /\ res.val.t # "Map")

\* the map %1 with the Integer 1 as its key
C25_Witness ==
    /\ call = "RespMap" /\ pre = <<"%", "1">> \o CRLF \o <<":", "1">> \o CRLF \o <<"+", "a">> \o CRLF
    /\ res.err = "InvalidFrameType"

\* a map of two entries, written with the key a before the key b
C25_WitnessOrder ==
    /\ frame.t = "Map" /\ Len(frame.v) = 2 /\ frame.v[2][1] = <<"b">>
    /\ wire = <<"%", "2">> \o CRLF \o <<"+", "a">> \o CRLF \o <<"_">> \o CRLF
                \o <<"+", "b">> \o CRLF \o <<"_">> \o CRLF

\* Buffers that break the grammar: an unknown prefix byte, a length that is
\* no number, a negative bulk length other than -1.
GrammarViolations ==
    {<<"?", "a">> \o CRLF, <<"$", "a">> \o CRLF, <<"$", "-", "2">> \o CRLF,
     <<"*", "a">> \o CRLF}

\* C26: phase 1 of the batch codec knows one failure only: on every buffer
\* parse_frame_length returns Ok(n) with n no greater than the length of the
\* buffer, or NotComplete, for truncated input and for input that breaks the
\* grammar alike; RespDecodeV2 decode then returns NotComplete and leaves
\* the buffer as it was.
C26_ProbeOnlyNotComplete ==
    LET probed(len) ==
            /\ \/ len.err = "Ok" /\ len.n <= Len(pre)
               \/ len.err = "NotComplete" /\ res.err = "NotComplete" /\ buf = pre
            /\ pre \in GrammarViolations => len.err = "NotComplete"
    IN  call = "RespDecodeV2" => probed(parse_frame_length(pre))

\* a bulk string of length -2
C26_Witness ==
    /\ call = "RespDecodeV2" /\ pre = <<"$", "-", "2">> \o CRLF
    /\ res.err = "NotComplete" /\ buf = pre

\* an unknown prefix byte
C26_WitnessPrefix ==
    call = "RespDecodeV2" /\ pre = <<"?", "a">> \o CRLF /\ res.err = "NotComplete"

\* C27: the batch decoder and the incremental decoder read the same
\* grammar: on a buffer that holds the encoding of a frame, RespDecodeV2
\* decode and the incremental decode return equal frames and leave the same
\* bytes in the buffer, and both expect_length return the length of the
\* encoding.
C27_DecodersAgree ==
    LET same(v1, v2, l1, l2) ==
            /\ v1.err = "Ok" /\ v2.err = "Ok"
            /\ v1.val = v2.val /\ v1.buf = v2.buf
            /\ l1 = Length(Len(wire)) /\ l2 = Length(Len(wire))
    IN  (frame # NoFrame /\ call \in {"RespFrame", "RespDecodeV2"} /\ pre = wire) =>
            same(RespFrame_decode(pre), RespDecodeV2_decode(pre),
                 RespFrame_expect_length(pre), RespDecodeV2_expect_length(pre))

\* C28: phase 2 of the batch decoder runs only on a span phase 1 has
\* confirmed, and its failure is final: when expect_length fails, decode
\* returns that failure with the buffer untouched and never InvalidFrame;
\* when decode returns InvalidFrame, the span phase 1 measured is gone from
\* the buffer, so that the next call cannot read the same bytes again.
C28_PhaseTwoFailureIsFinal ==
    LET probed(len) ==
            /\ len.err # "Ok" => (res.err = len.err /\ buf = pre)
            /\ res.err = "InvalidFrame" =>
                /\ len.err = "Ok" /\ len.n > 0
                /\ buf = Drop(pre, len.n) /\ Len(buf) < Len(pre)
    IN  call = "RespDecodeV2" => probed(RespDecodeV2_expect_length(pre))

\* the null bulk string, followed by an Integer: measured as 5 bytes,
\* refused by phase 2, the Integer left in the buffer
C28_Witness ==
    /\ call = "RespDecodeV2"
    /\ pre = <<"$", "-", "1">> \o CRLF \o <<":", "1">> \o CRLF
    /\ res.err = "InvalidFrame" /\ buf = <<":", "1">> \o CRLF

\* What is left of the wire after the first k frames sent.
Boundary(k) == Drop(wire, Len(encode_all(SubSeq(sent, 1, k))))

\* How many frames have been taken off a buffer that stands at a boundary.
Taken == CHOOSE k \in 0..Len(sent) : buf = Boundary(k)

\* C29: with the encodings of f1..fn back to back in the buffer, perhaps
\* followed by the beginning of another frame, successive decode calls
\* return f1..fn in that order, each removing exactly the bytes of the frame
\* it returns, and the call after them returns NotComplete and leaves the
\* beginning of the next frame in the buffer.  For RespFrame::decode and
\* RespDecodeV2 decode.
C29_PipelineInOrder ==
    [][(/\ fed = Len(wire) /\ \E k \in 0..Len(sent) : buf = Boundary(k)
        /\ call' \in {"RespFrame", "RespDecodeV2"} /\ pre' = buf)
       => IF Taken < Len(sent)
          THEN res' = [err |-> "Ok", val |-> sent[Taken + 1]] /\ buf' = Boundary(Taken + 1)
          ELSE res'.err = "NotComplete" /\ buf' = buf]_vars

\* The same for the incremental decoder alone.
PipelineInOrderIncremental ==
    [][(/\ fed = Len(wire) /\ \E k \in 0..Len(sent) : buf = Boundary(k)
        /\ call' = "RespFrame" /\ pre' = buf)
       => IF Taken < Len(sent)
          THEN res' = [err |-> "Ok", val |-> sent[Taken + 1]] /\ buf' = Boundary(Taken + 1)
          ELSE res'.err = "NotComplete" /\ buf' = buf]_vars

\* The elements after the name.
Trailing == Tail(cmdIn.v)

IsString(e) == e.t = "BulkString" /\ is_utf8(e.v)

\* The error parse_string_arg gives for an element that is not a string.
error_of(e) == IF e.t # "BulkString" THEN "InvalidArgument" ELSE "Utf8Error"

FirstOffending ==
    CHOOSE i \in 1..Len(Trailing) :
        ~IsString(Trailing[i]) /\ \A j \in 1..(i - 1) : IsString(Trailing[j])

HMGetIn == cmdOut # NoOutcome /\ Named /\ cmdIn.v[1].v = hmget

\* C13: an hmget array parses to an HMGet exactly when the name is followed
\* by at least 2 elements that are all BulkStrings of valid UTF-8, and then
\* key is the first of them and fields the others, in order.  In every other
\* case parsing fails and yields no command; with at least 2 elements after
\* the name the error is that of the first element that is not a string.
C13_HMGetAllOrNothing ==
    HMGetIn =>
        IF Len(Trailing) >= 2 /\ \A i \in 1..Len(Trailing) : IsString(Trailing[i])
        THEN cmdOut = Parsed([cmd |-> "HMGet",
                              fields |-> [i \in 1..(Len(Trailing) - 1) |-> Trailing[i + 1].v],
                              key |-> Trailing[1].v])
        ELSE /\ cmdOut.cmd = NoCommand /\ cmdOut.err # "Ok"
             /\ Len(Trailing) >= 2 => cmdOut.err = error_of(Trailing[FirstOffending])

\* a good key, a good field, a field of invalid UTF-8, then an Integer
C13_Witness ==
    /\ HMGetIn /\ Len(Trailing) = 4
    /\ IsString(Trailing[1]) /\ IsString(Trailing[2])
    /\ Trailing[3].t = "BulkString" /\ ~is_utf8(Trailing[3].v)
    /\ Trailing[4].t = "Integer"
    /\ cmdOut = Failed("Utf8Error")

C13_WitnessFields ==
    HMGetIn /\ Len(Trailing) = 4 /\ cmdOut.err = "Ok" /\ Len(cmdOut.cmd.fields) = 3

C13_WitnessShort == HMGetIn /\ Len(Trailing) = 1 /\ cmdOut = Failed("InvalidCommand")

---------------------------------------------------------------------------
(* Properties of the commands on the store, checked under SpecStore.       *)

Unknown ==
    cmdIn.t = "Array" /\ Len(cmdIn.v) > 0 /\ cmdIn.v[1].t = "BulkString"
        /\ to_ascii_lowercase(cmdIn.v[1].v) \notin KnownNames

\* C12: an array whose element 0 is a BulkString that is no command name
\* parses to Unrecognized whatever elements follow, and executing
\* Unrecognized returns SimpleString "OK" and leaves the three tables of the
\* store as they were.
C12_UnrecognizedIsOk ==
    [][/\ Unknown' => cmdOut' = Parsed([cmd |-> "Unrecognized"])
       /\ cmdOut'.cmd = [cmd |-> "Unrecognized"]
            => (reply' = RESP_OK /\ backend' = backend)]_vars

\* an unknown name followed by a BulkString and an Integer, on a store that
\* holds something
C12_Witness ==
    /\ Unknown /\ Len(cmdIn.v) = 3 /\ cmdIn.v[3].t = "Integer"
    /\ cmdOut = Parsed([cmd |-> "Unrecognized"])
    /\ reply = RESP_OK /\ backend # Backend_new

\* The request just handled is  set <key> <value>.
SetRequest ==
    /\ cmdIn.t = "Array" /\ Len(cmdIn.v) = 3 /\ cmdIn.v[1] = BulkString(set_)
    /\ IsString(cmdIn.v[2])

\* The request just handled is  hset <key> <field> <value>.
HSetRequest ==
    /\ cmdIn.t = "Array" /\ Len(cmdIn.v) = 4 /\ cmdIn.v[1] = BulkString(hset)
    /\ IsString(cmdIn.v[2]) /\ IsString(cmdIn.v[3])

\* C14: the value of SET and of HSET is taken as it is, whatever its type:
\* the request parses, the command carries the very frame of the request,
\* and a Get of the key (an HGet of the key and field) on the store the
\* command leaves returns that frame.
C14_ValueKeptAsIs ==
    /\ SetRequest =>
        /\ cmdOut = Parsed([cmd |-> "Set", key |-> cmdIn.v[2].v, value |-> cmdIn.v[3]])
        /\ Get_execute([cmd |-> "Get", key |-> cmdIn.v[2].v], backend).reply = cmdIn.v[3]
    /\ HSetRequest =>
        /\ cmdOut = Parsed([cmd |-> "HSet", field |-> cmdIn.v[3].v,
                            key |-> cmdIn.v[2].v, value |-> cmdIn.v[4]])
        /\ HGet_execute([cmd |-> "HGet", field |-> cmdIn.v[3].v,
                         key |-> cmdIn.v[2].v], backend).reply = cmdIn.v[4]

\* an hset whose value is an Integer, over an earlier BulkString
C14_Witness ==
    /\ HSetRequest /\ cmdIn.v[4].t = "Integer" /\ reply = RESP_OK
    /\ Len(log) = 2 /\ log[1].cmd = "HSet" /\ log[1].value.t = "BulkString"
    /\ log[1].key = cmdIn.v[2].v /\ log[1].field = cmdIn.v[3].v
    /\ backend.hmap[cmdIn.v[2].v][cmdIn.v[3].v] = cmdIn.v[4]

C14_WitnessSet ==
    SetRequest /\ cmdIn.v[3].t = "Integer" /\ backend.map[cmdIn.v[2].v] = cmdIn.v[3]

\* The command executed last.
Last == cmdOut.cmd

\* The positions in the log of the Sets on key k.
SetsOn(k) == {i \in 1..Len(log) : log[i].cmd = "Set" /\ log[i].key = k}

Max(S) == CHOOSE i \in S : \A j \in S : j <= i

\* C15: Set always returns SimpleString "OK"; Get(k) returns Null when no
\* Set on k has completed and otherwise the value of the latest Set on k.
C15_StringTable ==
    /\ Last.cmd = "Set" => reply = RESP_OK
    /\ Last.cmd = "Get" =>
        reply = IF SetsOn(Last.key) = {} THEN RespNull
                ELSE log[Max(SetsOn(Last.key))].value

\* a Get after two Sets of different values on its key
C15_Witness ==
    /\ Last.cmd = "Get" /\ Cardinality(SetsOn(Last.key)) = 2
    /\ log[1].value # log[2].value /\ reply = log[2].value

\* the request  get <key>  on the empty store
C15_WitnessEmpty ==
    /\ cmdIn \in {Request(get, <<BulkString(k)>>) : k \in StoreKeys}
    /\ backend = Backend_new /\ reply = RespNull

\* The positions in the log of the HSets on field f of key k.
HSetsOn(k, f) ==
    {i \in 1..Len(log) : log[i].cmd = "HSet" /\ log[i].key = k /\ log[i].field = f}

\* What the history says field f of key k holds.
Held(k, f) ==
    IF HSetsOn(k, f) = {} THEN RespNull ELSE log[Max(HSetsOn(k, f))].value

\* C16: HSet always returns SimpleString "OK"; HGet(k, f) returns Null when
\* no HSet on (k, f) has completed, also when k has no hash, and otherwise
\* the value of the latest HSet on exactly (k, f), whatever HSets on other
\* fields or keys came in between.
C16_HashTable ==
    /\ Last.cmd = "HSet" => reply = RESP_OK
    /\ Last.cmd = "HGet" => reply = Held(Last.key, Last.field)

\* an HGet of a field set first, with an HSet of another field of the same
\* key after it
C16_Witness ==
    /\ Last.cmd = "HGet" /\ Len(log) = 2
    /\ HSetsOn(Last.key, Last.field) = {1}
    /\ log[2].cmd = "HSet" /\ log[2].key = Last.key /\ log[2].value # log[1].value
    /\ reply = log[1].value

\* an HGet of a key without a hash, while another key has the field
C16_WitnessNoHash ==
    /\ Last.cmd = "HGet" /\ Last.key \notin DOMAIN backend.hmap
    /\ \E k \in DOMAIN backend.hmap : Last.field \in DOMAIN backend.hmap[k]
    /\ reply = RespNull

\* an HGet of a field the hash of its key does not have
C16_WitnessNoField ==
    /\ Last.cmd = "HGet" /\ Last.key \in DOMAIN backend.hmap
    /\ Last.field \notin DOMAIN backend.hmap[Last.key]
    /\ reply = RespNull

\* C17: HMGet(k, fields) returns an Array with one element for each field
\* asked for, in the order asked, a field asked twice answered twice;
\* element i is what HGet(k, fields[i]) returns on the same store: the
\* stored value, or Null for a missing field, also when k has no hash.
C17_HMGetPerField ==
    Last.cmd = "HMGet" =>
        /\ reply.t = "Array" /\ Len(reply.v) = Len(Last.fields)
        /\ \A i \in 1..Len(Last.fields) :
            /\ reply.v[i] = HGet_execute([cmd |-> "HGet", field |-> Last.fields[i],
                                          key |-> Last.key], backend).reply
            /\ reply.v[i] = Held(Last.key, Last.fields[i])

\* a missing field before a stored one
C17_Witness ==
    /\ Last.cmd = "HMGet" /\ Len(Last.fields) = 2
    /\ reply.t = "Array" /\ Len(reply.v) = 2
    /\ reply.v[1] = RespNull /\ reply.v[2] \in StoreValues

\* a stored field asked for twice
C17_WitnessTwice ==
    /\ Last.cmd = "HMGet" /\ Len(Last.fields) = 2 /\ Last.fields[1] = Last.fields[2]
    /\ reply.t = "Array" /\ Len(reply.v) = 2
    /\ reply.v[1] \in StoreValues /\ reply.v[2] = reply.v[1]

\* a key without a hash
C17_WitnessNoHash ==
    /\ Last.cmd = "HMGet" /\ Last.key \notin DOMAIN backend.hmap
    /\ backend.hmap # NoTable
    /\ reply = RespArray(<<RespNull, RespNull>>)

\* The fields the history says key k has.
FieldsOf(k) == {log[i].field : i \in {j \in 1..Len(log) : log[j].cmd = "HSet" /\ log[j].key = k}}

\* C18: HGetAll with sort = true returns an Array of alternating field and
\* value frames that holds every field of the key once, each followed by
\* its value, the fields in ascending lexicographic order, whatever the
\* order in which HSet inserted or overwrote them.
C18_SortedHGetAll ==
    (Last.cmd = "HGetAll" /\ Last.sort) =>
        /\ reply.t = "Array" /\ Len(reply.v) = 2 * Cardinality(FieldsOf(Last.key))
        /\ \A f \in FieldsOf(Last.key) :
            \E i \in 1..Cardinality(FieldsOf(Last.key)) :
                reply.v[2 * i - 1] = BulkString(f) /\ reply.v[2 * i] = Held(Last.key, f)
        /\ \A i \in 1..(Cardinality(FieldsOf(Last.key)) - 1) :
            StrLess(reply.v[2 * i - 1].v, reply.v[2 * i + 1].v)

\* the greater field was inserted first
C18_Witness ==
    /\ Last.cmd = "HGetAll" /\ Last.sort /\ Len(log) = 2
    /\ log[1].cmd = "HSet" /\ log[2].cmd = "HSet"
    /\ log[1].key = Last.key /\ log[2].key = Last.key
    /\ StrLess(log[2].field, log[1].field)
    /\ reply = RespArray(<<BulkString(log[2].field), log[2].value,
                           BulkString(log[1].field), log[1].value>>)

\* The last command was an HGetAll of a key that has no field.
HGetAllOfNothing == Last.cmd = "HGetAll" /\ FieldsOf(Last.key) = {}

\* C19: HGetAll of a key without a hash returns an Array with no elements
\* and not Null, and the bytes written for it are not a null form.
C19_EmptyNotNullForm ==
    HGetAllOfNothing =>
        /\ reply = RespArray(<<>>) /\ reply # RespNull
        /\ RespFrame_encode(reply) \notin {NullArray, NullBulk, RespNull_encode}

\* C19, amended: HGetAll of a key without a hash returns an Array with no
\* elements and not the Null frame; the bytes written for it are *-1\r\n,
\* the null-array form every empty Array is written as, and not the _\r\n
\* of the Null frame.
C19_EmptyArrayAsNullArrayForm ==
    HGetAllOfNothing =>
        /\ reply = RespArray(<<>>) /\ reply # RespNull
        /\ RespFrame_encode(reply) = NullArray
        /\ RespFrame_encode(reply) # RespFrame_encode(RespNull)

\* the key has no hash while another key has one
C19_Witness ==
    /\ HGetAllOfNothing /\ Last.key \notin DOMAIN backend.hmap
    /\ backend.hmap # NoTable /\ reply = RespArray(<<>>)

\* An AddMember of member m to key k has completed.
WasAdded(k, m) ==
    \E i \in 1..Len(log) :
        log[i].cmd = "AddMember" /\ log[i].key = k /\ log[i].member = m

\* C20: SisMember(k, m) tests membership in the set table: it returns
\* Integer 1 when an AddMember(k, m) has completed before it and Integer 0
\* when m was never added to k, also when k has no set.
C20_RealMembership ==
    Last.cmd = "SisMember" =>
        reply = IF WasAdded(Last.key, Last.member) THEN Integer(1) ELSE Integer(0)

Readers == {"Get", "HGet", "HMGet", "HGetAll", "SisMember", "Echo", "Unrecognized"}

\* C21: only Set, HSet and AddMember change the store: a step that executes
\* Get, HGet, HMGet, HGetAll, SisMember, Echo or Unrecognized leaves the
\* three tables exactly as they were, also when the key is absent, and Echo
\* returns a BulkString holding the message.
C21_ReadersKeepStore ==
    [][/\ cmdOut'.cmd.cmd \in Readers => backend' = backend /\ log' = log
       /\ cmdOut'.cmd.cmd = "Echo" => reply' = BulkString(cmdOut'.cmd.message)]_vars

\* an HGet of a key without a hash, on a store that holds something
C21_Witness ==
    /\ Last.cmd = "HGet" /\ Last.key \notin DOMAIN backend.hmap
    /\ backend # Backend_new /\ reply = RespNull

C21_WitnessEcho ==
    Last.cmd = "Echo" /\ reply = BulkString(<<"k">>) /\ backend # Backend_new

\* The positions in the log of the AddMembers on key k.
AddsOn(k) == {i \in 1..Len(log) : log[i].cmd = "AddMember" /\ log[i].key = k}

\* A table holds a key only if a write of that table was made to the key.
Separate ==
    \A k \in StoreKeys :
        /\ SetsOn(k) = {} => k \notin DOMAIN backend.map
        /\ (\A f \in StoreFields : HSetsOn(k, f) = {}) => k \notin DOMAIN backend.hmap
        /\ AddsOn(k) = {} => k \notin DOMAIN backend.set

\* C33: a step that executes Set leaves the hash and the set table as they
\* were, HSet the string and the set table, AddMember the string and the
\* hash table; a key written in other tables only is absent from a table:
\* Get and HGet of it return Null and HGetAll the empty array.
C33_IndependentTables ==
    [][/\ cmdOut'.cmd.cmd = "Set" =>
            backend'.hmap = backend.hmap /\ backend'.set = backend.set
       /\ cmdOut'.cmd.cmd = "HSet" =>
            backend'.map = backend.map /\ backend'.set = backend.set
       /\ cmdOut'.cmd.cmd = "AddMember" =>
            backend'.map = backend.map /\ backend'.hmap = backend.hmap
       /\ Separate'
       /\ cmdOut'.cmd.cmd = "Get" /\ SetsOn(cmdOut'.cmd.key) = {} => reply' = RespNull
       /\ cmdOut'.cmd.cmd \in {"HGet", "HGetAll"}
              /\ (\A f \in StoreFields : HSetsOn(cmdOut'.cmd.key, f) = {})
            => reply' = IF cmdOut'.cmd.cmd = "HGet" THEN RespNull ELSE RespArray(<<>>)]_vars

\* An HGetAll of a key that was written in the string and the set table.
C33_Witness ==
    /\ Last.cmd = "HGetAll" /\ reply = RespArray(<<>>)
    /\ SetsOn(Last.key) # {} /\ AddsOn(Last.key) # {}

\* A Get of a key that has a hash.
C33_WitnessGet ==
    /\ Last.cmd = "Get" /\ reply = RespNull
    /\ Last.key \in DOMAIN backend.hmap

\* What a step may do to the entries of the three tables: add to them.
Grows ==
    /\ DOMAIN backend.map \subseteq DOMAIN backend'.map
    /\ \A k \in DOMAIN backend.hmap :
         /\ k \in DOMAIN backend'.hmap
         /\ DOMAIN backend.hmap[k] \subseteq DOMAIN backend'.hmap[k]
    /\ \A k \in DOMAIN backend.set :
         k \in DOMAIN backend'.set /\ backend.set[k] \subseteq backend'.set[k]

\* The last command read a key or field to which a value other than Null
\* was written at some time: a read right after that write returned it.
ReadOfNonNull ==
    \/ Last.cmd = "Get" /\ \E i \in SetsOn(Last.key) : log[i].value # RespNull
    \/ Last.cmd = "HGet"
          /\ \E i \in HSetsOn(Last.key, Last.field) : log[i].value # RespNull

\* C32 as stated: no step removes a key, a field or a member, and a Get or
\* HGet of an entry that has answered a value other than Null never answers
\* Null afterwards.
C32_NonNullNeverNull ==
    [][Grows /\ (ReadOfNonNull' => reply' # RespNull)]_vars

\* The value the writes made so far leave under what the last command read.
Latest ==
    IF Last.cmd = "Get" THEN log[Max(SetsOn(Last.key))].value
    ELSE log[Max(HSetsOn(Last.key, Last.field))].value

\* C32: no step removes a key of the string table, a field of a hash or a
\* member of a set, so the three tables only grow; a Get or HGet of an
\* entry that is present answers the value written last, which is Null
\* exactly when the Null frame was the value written last.
C32_EntriesStay ==
    [][Grows /\ (ReadOfNonNull' => reply' = Latest')]_vars

\* An HGet answers Null for a field that is present and held another value
\* before.
C32_Witness ==
    /\ Last.cmd = "HGet" /\ ReadOfNonNull /\ reply = RespNull
    /\ Last.field \in DOMAIN backend.hmap[Last.key]

\* A hash with two fields, a string and a set member are present together.
C32_WitnessGrown ==
    /\ \E k \in DOMAIN backend.hmap : Cardinality(DOMAIN backend.hmap[k]) = 2
    /\ Last.cmd = "HGet" /\ reply # RespNull

---------------------------------------------------------------------------
(* Properties of concurrent handlers, checked under SpecConc.              *)

\* The positions in the log of the writes to the hash of key k.
WritesOn(k) == {i \in 1..Len(log) : log[i].cmd = "HSet" /\ log[i].key = k}

\* Handler h is the only one to have written to key k.
Owns(h, k) == WritesOn(k) # {} /\ \A i \in WritesOn(k) : log[i].value = Integer(h)

\* Handler h has returned from an HGet of field f of key k.
HasRead(h, k, f) ==
    /\ handlers[h].pc = "returned"
    /\ handlers[h].cmd = [cmd |-> "HGet", field |-> f, key |-> k]

\* No write is between its call and its return.
Quiet == \A h \in Handlers : ~Writing(h)

\* C22: when handlers write to keys no other handler writes to, a handler's
\* read of a field it wrote, made after its write, returns the value it
\* wrote, and once no write is under way every such key holds under every
\* field written the value of its writer.
C22_NoLostUpdates ==
    /\ \A h \in Handlers, k \in ConcKeys, f \in ConcFields :
         HasRead(h, k, f) /\ Owns(h, k) /\ HSetsOn(k, f) # {}
             => handlers[h].ret = Integer(h)
    /\ Quiet =>
         \A h \in Handlers, k \in ConcKeys, f \in ConcFields :
             Owns(h, k) /\ HSetsOn(k, f) # {}
                 => Backend_hget(backend, k, f) = Some(Integer(h))

\* Two handlers have each written to a key of their own and read it back.
C22_Witness ==
    \E k1, k2 \in ConcKeys, f1, f2 \in ConcFields :
        /\ k1 # k2
        /\ Owns(1, k1) /\ Owns(2, k2)
        /\ HasRead(1, k1, f1) /\ handlers[1].ret = Integer(1)
        /\ HasRead(2, k2, f2) /\ handlers[2].ret = Integer(2)

\* Two writes to different keys are under way at the same time.
C22_WitnessOverlap ==
    /\ handlers[1].pc = "locked" /\ handlers[2].pc = "locked"
    /\ handlers[1].cmd.cmd = "HSet" /\ handlers[2].cmd.cmd = "HSet"
    /\ handlers[1].cmd.key # handlers[2].cmd.key

\* What field f holds in an entry of the hash table.
Lookup(s, f) ==
    IF \E e \in s : \E p \in e : p[1] = f
    THEN (CHOOSE p \in UNION s : p[1] = f)[2]
    ELSE RespNull

\* C23: once no write is under way, a field handlers have written to holds
\* the value of the write that completed last, which is one of the values
\* written; an HGet returns a value the field held at some instant between
\* its call and its return, which is Null or a value written to the field.
C23_NoTornWrites ==
    /\ Quiet =>
         \A k \in ConcKeys, f \in ConcFields :
             HSetsOn(k, f) # {}
                 => /\ Backend_hget(backend, k, f) = Some(log[Max(HSetsOn(k, f))].value)
                    /\ Held(k, f) \in {Integer(h) : h \in Handlers}
    /\ \A h \in Handlers, k \in ConcKeys, f \in ConcFields :
         HasRead(h, k, f) =>
             /\ handlers[h].ret \in {Lookup(s, f) : s \in handlers[h].snaps}
             /\ handlers[h].ret \in {RespNull} \cup {log[i].value : i \in HSetsOn(k, f)}

\* Both handlers have written to one field, and an HGet of it has returned
\* that was running while one of the writes completed.
C23_Witness ==
    \E k \in ConcKeys, f \in ConcFields :
        /\ {log[i].value : i \in HSetsOn(k, f)} = {Integer(h) : h \in Handlers}
        /\ \E h \in Handlers :
             /\ HasRead(h, k, f)
             /\ Cardinality({Lookup(s, f) : s \in handlers[h].snaps}) >= 2
             /\ handlers[h].ret # RespNull

\* Two writes to one field are under way at the same time.
C23_WitnessOverlap ==
    /\ handlers[1].pc = "locked" /\ handlers[2].pc = "called"
    /\ handlers[1].cmd.cmd = "HSet" /\ handlers[2].cmd.cmd = "HSet"
    /\ handlers[1].cmd.key = handlers[2].cmd.key
    /\ handlers[1].cmd.field = handlers[2].cmd.field

\* Handler g holds the lock of a key of the table h works on.
HoldsBeside(g, h) ==
    /\ g # h
    /\ handlers[g].pc = "locked"
    /\ TableOf(handlers[g].cmd) = TableOf(handlers[h].cmd)

Pairs(r) == {<<r.v[2 * i - 1].v, r.v[2 * i]>> : i \in 1..(Len(r.v) \div 2)}

\* Handler h has returned from an HGetAll.
HasReadAll(h) == handlers[h].pc = "returned" /\ handlers[h].cmd.cmd = "HGetAll"

\* C30: the reply of an HGetAll of key k lists, once each, the fields and
\* values the hash of k held at one instant between the call and the
\* return.
C30_HGetAllSnapshot ==
    \A h \in Handlers :
        HasReadAll(h) =>
            \E s \in handlers[h].snaps :
                /\ Pairs(handlers[h].ret) = UNION s
                /\ Len(handlers[h].ret.v) = 2 * Cardinality(UNION s)

\* An HGetAll has returned two fields after an HSet on its key completed
\* between its call and its return.
C30_Witness ==
    \E h \in Handlers :
        /\ HasReadAll(h)
        /\ Cardinality(handlers[h].snaps) >= 2
        /\ Cardinality(Pairs(handlers[h].ret)) = 2

\* An HSet on the key of an HGetAll waits while the HGetAll walks the hash.
C30_WitnessWaiting ==
    \E h, g \in Handlers :
        /\ handlers[h].pc = "locked" /\ handlers[h].cmd.cmd = "HGetAll"
        /\ Len(handlers[h].seen) = 1
        /\ handlers[g].pc = "called" /\ handlers[g].cmd.cmd = "HSet"
        /\ handlers[g].cmd.key = handlers[h].cmd.key

---------------------------------------------------------------------------
(* The HGetAll the parser builds, checked under SpecCmd.                   *)

\* The parser has built an HGetAll.
ParsedHGetAll == cmdOut.err = "Ok" /\ cmdOut.cmd.cmd = "HGetAll"

\* A store whose hash under key k has every field of StoreFields.
Filled(k) ==
    [Backend_new EXCEPT !.hmap = insert(NoTable, k, [f \in StoreFields |-> Integer(1)])]

\* C34: an HGetAll built by Command::try_from has sort = false whatever the
\* array, and executed on a hash it lists the fields in the order the
\* iteration visits them, whichever order that is.
C34_WireHGetAllUnsorted ==
    ParsedHGetAll =>
        /\ cmdOut.cmd.sort = FALSE
        /\ \A iter \in Iterations(Filled(cmdOut.cmd.key).hmap[cmdOut.cmd.key]) :
             HGetAll_execute(cmdOut.cmd, Filled(cmdOut.cmd.key), iter).reply
                 = RespArray(flat_map([i \in 1..Len(iter) |-> <<iter[i], Integer(1)>>]))

\* An HGetAll was built from an array with arguments after the key.
C34_Witness ==
    /\ ParsedHGetAll
    /\ Len(cmdIn.v) > 2
    /\ cmdOut.cmd = [cmd |-> "HGetAll", key |-> <<"k">>, sort |-> FALSE]

---------------------------------------------------------------------------
(* Termination of the commands of concurrent handlers, checked under       *)
(* SpecLive.                                                               *)

\* Handler h can take the next step of its command.
CanStep(h) == ENABLED (Lock(h) \/ Visit(h) \/ Return(h))

\* While commands are running, one of them can take a step.
NoDeadlock ==
    (\E h \in DOMAIN handlers : Running(h))
        => \E h \in DOMAIN handlers : Running(h) /\ CanStep(h)

HoldersReturn ==
    \A h \in Workers : (handlers[h].pc = "locked") ~> (handlers[h].pc = "returned")

\* An HSet waits for the lock of its key while two readers hold it.
WriterBehindReaders ==
    \E h \in Workers :
        /\ handlers[h].pc = "called" /\ handlers[h].cmd.cmd = "HSet"
        /\ Cardinality({g \in held : g.key = handlers[h].cmd.key /\ g.mode = "r"}) = 2

====
